---- MODULE Spec2Model ----
(***************************************************************************)
(* Rate-cache synchronization subsystem of valutatrade_hub.parser_service: *)
(* storage.py (cache and history files), updater.py (refresh cycle) and    *)
(* scheduler.py (background loop).                                         *)
(***************************************************************************)
EXTENDS Integers, Sequences, FiniteSets, TLC

VARIABLES
    ratesFile,      \* data/rates.json: [exists, content]
    last,           \* the last update_rates_cache call and its outcome
    batch,          \* a fixed set of update_rates_cache calls (order study)
    pending,        \* the calls of batch not yet applied
    cache0,         \* the cache file before the first call of batch or of the cycle
    historyFile,    \* data/exchange_rates.json: [exists, content]
    hist0,          \* the history file before the cycle
    clients,        \* RatesUpdater.clients: the list of adapters
    cyc,            \* the locals of run_update and its position
    wr,             \* a write_rates_cache / write_exchange_rates_history in progress
    conc,           \* two threads of one process inside the storage functions
    sched,          \* a RatesScheduler, its loop threads and its caller
    req,            \* a BaseApiClient._make_request call and what it has done
    portfolio,      \* data/portfolios.json: the wallets of the logged-in user
    db              \* the DatabaseManager: its lock, cache, file and callers

orderVars == <<batch, pending>>
updVars == <<historyFile, hist0, clients, cyc>>
bgVars == <<wr, conc, sched, req, portfolio, db>>
vars == <<ratesFile, last, batch, pending, cache0, historyFile, hist0, clients, cyc,
          wr, conc, sched, req, portfolio, db>>

(***************************************************************************)
(* Bounds of the model.                                                    *)
(***************************************************************************)
MaxTick  == 1       \* the clock reads 9 .. 9 + MaxTick
MaxRate  == 2       \* rates are 1 .. MaxRate
MaxCalls == 3       \* calls in a batch, with clock readings 8 .. 7 + MaxCalls
MaxClients == 2     \* adapters in RatesUpdater.clients
MaxStarts == 2      \* loop threads a RatesScheduler creates
MaxRecords == 3     \* records in the history log
MaxRetriesArg == 3  \* the max_retries argument is None or 1 .. MaxRetriesArg

Ticks == 9 .. (9 + MaxTick)
BatchTicks == 8 .. (7 + MaxCalls)
Rates == 1 .. MaxRate

(***************************************************************************)
(* Timestamps.  The code formats utcnow() with "%Y-%m-%dT%H:%M:%SZ" and     *)
(* compares the resulting strings; a string is modelled as the sequence of *)
(* its characters, here the two digits of the seconds field.               *)
(***************************************************************************)
Strftime(t) == <<t \div 10, t % 10>>
Strptime(s) == s[1] * 10 + s[2]

EmptyStr == << >>
None == <<-1>>

\* Python's str >= str: lexicographic comparison, a proper prefix is smaller.
RECURSIVE StrGE(_, _)
StrGE(a, b) ==
    IF b = << >> THEN TRUE
    ELSE IF a = << >> THEN FALSE
    ELSE IF Head(a) # Head(b) THEN Head(a) > Head(b)
    ELSE StrGE(Tail(a), Tail(b))

(***************************************************************************)
(* Pair keys.  A pair key "A_B" is modelled by the list of its             *)
(* "_"-separated parts, which is what pair.split("_") returns.             *)
(***************************************************************************)
BTC_USD == <<"BTC", "USD">>
EUR_USD == <<"EUR", "USD">>
BadCode == <<"btc", "USD">>        \* two parts, the first not [A-Z]{2,5}
OnePart == <<"BTCUSD">>            \* no underscore

ValidPairs == {BTC_USD, EUR_USD}

Split(pair) == pair

validate_currency_code(code) == code \in {"BTC", "ETH", "SOL", "EUR", "GBP", "USD"}

\* parse_pair raises ValueError unless the key is two valid codes
ParsePairRaises(pair) ==
    \/ Len(Split(pair)) # 2
    \/ ~validate_currency_code(Split(pair)[1])
    \/ ~validate_currency_code(Split(pair)[2])

(***************************************************************************)
(* Files.  json.dump writes the opening of the container, its body and its *)
(* closing; a file whose content is not all three is not valid JSON.       *)
(***************************************************************************)
NoFile == [exists |-> FALSE, content |-> << >>]

JsonDump(data) == <<"{", data, "}">>

FileOf(data) == [exists |-> TRUE, content |-> JsonDump(data)]

JsonValid(content) == Len(content) = 3 /\ content[1] = "{" /\ content[3] = "}"

JsonLoad(content) == content[2]

Dict(d) == [kind |-> "dict", val |-> d]

EmptyMap == [x \in {} |-> 0]

\* the canonical cache snapshot {"pairs": ..., "last_refresh": ...}
Snapshot(pairs, last_refresh) ==
    Dict([pairs |-> pairs, last_refresh |-> last_refresh])

Entry(rate, updated_at, source) ==
    [rate |-> rate, updated_at |-> updated_at, source |-> source]

(***************************************************************************)
(* read_rates_cache                                                        *)
(***************************************************************************)
\* the legacy shape {"rates": {CODE: rate}, "base_currency", "updated_at"}
MigratePairsMutKeepsBase(d, now) ==
    LET base  == IF "base_currency" \in DOMAIN d THEN d.base_currency ELSE "USD"
        upd   == IF "updated_at" \in DOMAIN d THEN d.updated_at ELSE Strftime(now)
    IN  Snapshot([p \in {<<c, base>> : c \in DOMAIN d.rates} |->
                     Entry(d.rates[p[1]], upd, "migrated")], upd)
MigratePairs(d, now) ==
    LET base  == IF "base_currency" \in DOMAIN d THEN d.base_currency ELSE "USD"
        upd   == IF "updated_at" \in DOMAIN d THEN d.updated_at ELSE Strftime(now)
        codes == {c \in DOMAIN d.rates : c # base}
    IN  Snapshot([p \in {<<c, base>> : c \in codes} |->
                     Entry(d.rates[p[1]], upd, "migrated")], upd)

\* Python's `key in data` for the loaded JSON value: a key of an object, an
\* element of a list
Contains(loaded, key) ==
    IF loaded.kind = "dict" THEN key \in DOMAIN loaded.val
    ELSE \E k \in DOMAIN loaded.val : loaded.val[k] = key

\* line 334 raises TypeError on a value that is no container (a number,
\* null); line 339 raises AttributeError on a list that passed the test
ReadRatesCache(f, now) ==
    IF ~f.exists
    THEN [raised |-> "none", data |-> Snapshot(EmptyMap, None).val]
    ELSE IF ~JsonValid(f.content)
    THEN [raised |-> "StorageError", data |-> EmptyMap]
    ELSE LET loaded == JsonLoad(f.content)
         IN  IF loaded.kind \in {"number", "null"}
             THEN [raised |-> "TypeError", data |-> EmptyMap]
             ELSE IF Contains(loaded, "rates") /\ ~Contains(loaded, "pairs")
                     /\ loaded.kind # "dict"
             THEN [raised |-> "AttributeError", data |-> EmptyMap]
             ELSE
             LET data == IF /\ loaded.kind = "dict"
                            /\ "rates" \in DOMAIN loaded.val
                            /\ "pairs" \notin DOMAIN loaded.val
                         THEN MigratePairs(loaded.val, now)
                         ELSE loaded
             IN  IF data.kind # "dict"
                 THEN [raised |-> "StorageError", data |-> EmptyMap]
                 ELSE IF "pairs" \notin DOMAIN data.val
                 THEN [raised |-> "none",
                       data |-> [k \in DOMAIN data.val \cup {"pairs"} |->
                                   IF k = "pairs" THEN EmptyMap ELSE data.val[k]]]
                 ELSE [raised |-> "none", data |-> data.val]

(***************************************************************************)
(* write_rates_cache: temp file, json.dump, os.replace.  io is the outcome *)
(* of the file system: "ok" or "oserror".                                  *)
(***************************************************************************)
WriteRatesCacheMutDropsRefresh(f, data, io) ==
    IF io = "ok"
    THEN [raised |-> "none",
          file |-> FileOf(Dict([data EXCEPT !.last_refresh = None]))]
    ELSE [raised |-> "StorageError", file |-> f]
WriteRatesCache(f, data, io) ==
    IF io = "ok"
    THEN [raised |-> "none", file |-> FileOf(Dict(data))]
    ELSE [raised |-> "StorageError", file |-> f]

(***************************************************************************)
(* update_rates_cache                                                      *)
(***************************************************************************)
\* line 457: the stored entry is at least as fresh as the incoming one
CachedIsFresherMutAlways(cached_timestamp, timestamp) == FALSE
CachedIsFresherMutSwapped(cached_timestamp, timestamp) ==
    StrGE(timestamp, cached_timestamp)
CachedIsFresherMutStrict(cached_timestamp, timestamp) ==
    StrGE(cached_timestamp, timestamp) /\ cached_timestamp # timestamp
CachedIsFresher(cached_timestamp, timestamp) == StrGE(cached_timestamp, timestamp)

CachedTimestamp(entry) ==
    IF "updated_at" \in DOMAIN entry THEN entry.updated_at ELSE EmptyStr

\* the pairs of rates that the loop does not skip
AppliedPairs(pairs, rates, timestamp) ==
    {p \in DOMAIN rates :
        ~(p \in DOMAIN pairs /\ CachedIsFresher(CachedTimestamp(pairs[p]), timestamp))}

MergePairs(pairs, rates, source, timestamp) ==
    LET applied == AppliedPairs(pairs, rates, timestamp)
    IN  [p \in DOMAIN pairs \cup applied |->
            IF p \in applied THEN Entry(rates[p], timestamp, source) ELSE pairs[p]]

\* line 470: cache_data["last_refresh"] = timestamp
LastRefreshMutIfApplied(cache_data, applied, timestamp) ==
    IF applied = {} /\ "last_refresh" \in DOMAIN cache_data
    THEN cache_data.last_refresh ELSE timestamp
LastRefreshMutMonotone(cache_data, applied, timestamp) ==
    IF "last_refresh" \in DOMAIN cache_data /\ cache_data.last_refresh # None
       /\ StrGE(cache_data.last_refresh, timestamp)
    THEN cache_data.last_refresh ELSE timestamp

LastRefresh(cache_data, applied, timestamp) == timestamp

\* what the call hands back: the function has no return statement (its
\* annotation is -> None), or it left by an exception
ReturnsNone == [kind |-> "None", val |-> 0]
Raised == [kind |-> "raised", val |-> 0]

\* lines 449-453: parse_pair raises inside the loop, before the only write
\* of the function (line 473); the entries set so far are in memory only
OnInvalidKeyMutWritesValid(f, pairs, rates, source, timestamp) ==
    [raised |-> "ValueError",
     file |-> FileOf(Snapshot(
                  MergePairs(pairs, [p \in {q \in DOMAIN rates : ~ParsePairRaises(q)} |->
                                        rates[p]], source, timestamp),
                  timestamp)),
     applied |-> {}, ret |-> Raised]
OnInvalidKey(f, pairs, rates, source, timestamp) ==
    [raised |-> "ValueError", file |-> f, applied |-> {}, ret |-> Raised]

\* lines 449-473, after the read returned rd
MergeAndWrite(f, rd, rates, source, timestamp, io) ==
    IF rd.raised # "none"
    THEN [raised |-> rd.raised, file |-> f, applied |-> {}, ret |-> Raised]
    ELSE IF \E p \in DOMAIN rates : ParsePairRaises(p)
    THEN OnInvalidKey(f, rd.data.pairs, rates, source, timestamp)
    ELSE LET applied == AppliedPairs(rd.data.pairs, rates, timestamp)
             data == [k \in DOMAIN rd.data \cup {"last_refresh"} |->
                        IF k = "pairs"
                        THEN MergePairs(rd.data.pairs, rates, source, timestamp)
                        ELSE IF k = "last_refresh"
                        THEN LastRefresh(rd.data, applied, timestamp)
                        ELSE rd.data[k]]
             wr_  == WriteRatesCache(f, data, io)
         IN  [raised  |-> wr_.raised,
              file    |-> wr_.file,
              applied |-> applied,
              ret     |-> IF wr_.raised = "none" THEN ReturnsNone ELSE Raised]

\* applied is the set of pairs counted in updated_count
UpdateRatesCache(f, rates, source, timestamp, now, io) ==
    MergeAndWrite(f, ReadRatesCache(f, now), rates, source, timestamp, io)

(***************************************************************************)
(* read_exchange_rates_history, write_exchange_rates_history,              *)
(* add_history_record                                                      *)
(***************************************************************************)
HistoryLog(records, last_updated) ==
    Dict([history |-> records, last_updated |-> last_updated])

\* lines 152-164, on the loaded JSON value
CheckHistoryMutNoRepair(loaded) ==
    IF loaded.kind # "dict"
    THEN [raised |-> "StorageError", data |-> EmptyMap]
    ELSE [raised |-> "none", data |-> loaded.val]
CheckHistory(loaded) ==
    IF loaded.kind # "dict"
    THEN [raised |-> "StorageError", data |-> EmptyMap]
    ELSE IF "history" \notin DOMAIN loaded.val
    THEN [raised |-> "none",
          data |-> [k \in DOMAIN loaded.val \cup {"history"} |->
                      IF k = "history" THEN << >> ELSE loaded.val[k]]]
    ELSE [raised |-> "none", data |-> loaded.val]

ReadHistory(f) ==
    IF ~f.exists
    THEN [raised |-> "none", data |-> HistoryLog(<< >>, None).val]
    ELSE IF ~JsonValid(f.content)
    THEN [raised |-> "StorageError", data |-> EmptyMap]
    ELSE CheckHistory(JsonLoad(f.content))

WriteHistory(f, data, io) ==
    IF io = "ok"
    THEN [raised |-> "none", file |-> FileOf(Dict(data))]
    ELSE [raised |-> "StorageError", file |-> f]

generate_record_id(from_currency, to_currency, timestamp) ==
    <<from_currency, to_currency, timestamp>>

\* the record of lines 259-276; request_ms, the elapsed wall-clock time, is
\* left out
HistoryRecord(pair, rate, source, timestamp, raw_id) ==
    [id |-> generate_record_id(Split(pair)[1], Split(pair)[2], timestamp),
     from |-> Split(pair)[1], to |-> Split(pair)[2], rate |-> rate,
     updated_at |-> timestamp, source |-> source, raw_id |-> raw_id,
     status_code |-> 200]

\* line 281: history_data["history"].append(record)
PushRecordMutReplace(history, record) == <<record>>
PushRecord(history, record) == Append(history, record)

\* lines 278-286, after the read returned rd
AppendAndWrite(f, rd, record, io) ==
    IF rd.raised # "none"
    THEN [raised |-> rd.raised, file |-> f]
    ELSE WriteHistory(f, [k \in DOMAIN rd.data \cup {"last_updated"} |->
                            IF k = "history" THEN PushRecord(rd.data.history, record)
                            ELSE IF k = "last_updated" THEN record.updated_at
                            ELSE rd.data[k]], io)

AddHistoryRecord(f, pair, rate, source, timestamp, raw_id, io) ==
    IF ParsePairRaises(pair)
    THEN [raised |-> "ValueError", file |-> f]
    ELSE AppendAndWrite(f, ReadHistory(f),
                        HistoryRecord(pair, rate, source, timestamp, raw_id), io)

RecordsOf(f) == ReadHistory(f).data.history

(***************************************************************************)
(* RatesUpdater.run_update                                                 *)
(***************************************************************************)
CRYPTO_CURRENCIES == {"BTC", "ETH", "SOL"}

\* config.CRYPTO_ID_MAP.get(from_currency)
CryptoId(code) ==
    CASE code = "BTC" -> "bitcoin"
      [] code = "ETH" -> "ethereum"
      [] code = "SOL" -> "solana"
      [] OTHER -> "None"

ClientKinds == {"CoinGeckoClient", "ExchangeRateApiClient", "OtherClient"}

\* the pair keys an adapter of each class returns; a further subclass of
\* BaseApiClient is not bound to the configured currency lists
KeysOf(kind) ==
    CASE kind = "CoinGeckoClient" -> {BTC_USD}
      [] kind = "ExchangeRateApiClient" -> {EUR_USD}
      [] OTHER -> {EUR_USD, BadCode, OnePart}

\* what the fiat provider reports for a currency: a number, possibly zero or
\* negative, or something that is not a number
ProviderValues ==
    {[number |-> TRUE, v |-> n] : n \in {0, -1} \cup Rates}
    \cup {[number |-> FALSE, v |-> 0]}

\* the body of the provider's answer as response.json() returns it
FiatPayloads ==
    {[result |-> "error", conversion_rates |-> EmptyMap],
     [result |-> "success", conversion_rates |-> EmptyMap],
     [result |-> "success",
      conversion_rates |-> [c \in {"XXX"} |-> [number |-> TRUE, v |-> 1]]]}
    \cup {[result |-> "success", conversion_rates |-> [c \in {"EUR"} |-> v]] :
             v \in ProviderValues}

\* api_clients.py line 259: 1.0 / usd_to_fiat if usd_to_fiat != 0 else 0.0,
\* in units in which the quotients of the model's rates are whole numbers
InvertRate(usd_to_fiat) ==
    IF usd_to_fiat # 0 THEN MaxRate \div usd_to_fiat ELSE 0

\* api_clients.py lines 236-282, for the tracked currency EUR, on the body
\* of a 200 response
FiatFetch(data) ==
    IF data.result # "success" \/ data.conversion_rates = EmptyMap
       \/ "EUR" \notin DOMAIN data.conversion_rates
    THEN [kind |-> "ApiRequestError", items |-> << >>, msg |-> "api"]
    ELSE IF ~data.conversion_rates["EUR"].number
    THEN [kind |-> "Exception", items |-> << >>, msg |-> "exc"]
    ELSE [kind |-> "ok",
          items |-> <<[pair |-> EUR_USD,
                       rate |-> InvertRate(data.conversion_rates["EUR"].v)]>>,
          msg |-> ""]

\* client.fetch_rates(): a dict (the list of its items), or ApiRequestError,
\* or another exception; the two configured adapters raise ApiRequestError
\* rather than return an empty dict
FetchOutcomes(kind) ==
    (IF kind = "ExchangeRateApiClient"
     THEN {FiatFetch(data) : data \in FiatPayloads}
     ELSE {[kind |-> "ok", items |-> <<[pair |-> k, rate |-> r]>>, msg |-> ""] :
              k \in KeysOf(kind), r \in Rates})
    \cup (IF kind = "OtherClient"
          THEN {[kind |-> "ok", items |-> << >>, msg |-> ""]}
          ELSE {})
    \cup {[kind |-> "ApiRequestError", items |-> << >>, msg |-> "api"],
          [kind |-> "Exception", items |-> << >>, msg |-> "exc"]}

\* dict(items)
ItemsMap(items) ==
    [p \in {items[k].pair : k \in DOMAIN items} |->
        (CHOOSE it \in {items[k] : k \in DOMAIN items} : it.pair = p).rate]

\* all_rates.update(rates)
DictUpdateMutKeepFirst(d, e) ==
    [p \in DOMAIN d \cup DOMAIN e |-> IF p \in DOMAIN d THEN d[p] ELSE e[p]]
DictUpdate(d, e) == [p \in DOMAIN d \cup DOMAIN e |-> IF p \in DOMAIN e THEN e[p] ELSE d[p]]

\* lines 119-126
SourceOf(kind) ==
    CASE kind = "CoinGeckoClient" -> "CoinGecko"
      [] kind = "ExchangeRateApiClient" -> "ExchangeRate-API"
      [] OTHER -> kind

ZeroStats == [crypto_count |-> 0, fiat_count |-> 0, total_count |-> 0,
              errors |-> 0, success |-> 0, failed |-> 0]

\* lines 119-124: the per-category count is set as soon as the fetch returns
CountFetched(stats, kind, n) ==
    CASE kind = "CoinGeckoClient" -> [stats EXCEPT !.crypto_count = n]
      [] kind = "ExchangeRateApiClient" -> [stats EXCEPT !.fiat_count = n]
      [] OTHER -> stats

\* lines 132-145: the history loop from item k on; the write of append number
\* failAt fails (0: none does)
RECURSIVE AppendAll(_, _, _, _, _, _)
AppendAll(f, items, k, source, timestamp, failAt) ==
    IF k > Len(items)
    THEN [raised |-> "none", file |-> f]
    ELSE IF Len(Split(items[k].pair)) # 2
    THEN [raised |-> "ValueError", file |-> f]
    ELSE IF AddHistoryRecord(f, items[k].pair, items[k].rate, source, timestamp,
                             CryptoId(Split(items[k].pair)[1]),
                             IF k = failAt THEN "oserror" ELSE "ok").raised # "none"
    THEN AddHistoryRecord(f, items[k].pair, items[k].rate, source, timestamp,
                          CryptoId(Split(items[k].pair)[1]),
                          IF k = failAt THEN "oserror" ELSE "ok")
    ELSE AppendAll(AddHistoryRecord(f, items[k].pair, items[k].rate, source,
                                    timestamp, CryptoId(Split(items[k].pair)[1]),
                                    "ok").file,
                   items, k + 1, source, timestamp, failAt)

RecordFailureMutAbort(u, client_name, msg) ==
    [u EXCEPT !.pc = "done", !.result = "ApiRequestError",
              !.msg = <<<<client_name, msg>>>>]

\* lines 157-159 and 167-169
RecordFailure(u, client_name, msg) ==
    [u EXCEPT !.errors = Append(@, <<client_name, msg>>),
              !.stats.errors = @ + 1,
              !.stats.failed = @ + 1]

\* line 173: "; ".join(errors) after the fixed prefix
JoinErrorsMutLast(errors) == IF errors = << >> THEN << >> ELSE <<errors[Len(errors)]>>
JoinErrors(errors) == errors

IdleUpd == [pc |-> "idle", tick |-> 0, i |-> 1, all_rates |-> EmptyMap,
            errors |-> << >>, stats |-> ZeroStats, fetched |-> << >>,
            result |-> "none", msg |-> << >>, merged |-> << >>]

UpdIdle ==
    /\ historyFile = NoFile
    /\ hist0 = NoFile
    /\ clients = << >>
    /\ cyc = IdleUpd

(***************************************************************************)
(* The state of the parts a specification leaves out.                      *)
(***************************************************************************)
IdleWr == [pc |-> "idle", target |-> "none", data |-> EmptyMap, n |-> 0,
           tmp |-> NoFile, raised |-> "none", step |-> "none"]

IdleConc == [th |-> << >>, acked |-> {}]

\* RatesScheduler.__init__, lines 38-42; no thread exists and no call is made
IdleSched == [running |-> FALSE, event |-> FALSE, thread |-> 0,
              threads |-> << >>, main |-> "idle", ret |-> "none"]

\* no request has been made
IdleReq == [pc |-> "idle", max_retries |-> 0, retries |-> 0, attempt |-> 0, seen |-> << >>,
            slept |-> << >>, last_exception |-> "None", result |-> "none",
            cause |-> "None"]

\* no portfolio is stored
IdlePortfolio == [wallets |-> EmptyMap]

\* no DatabaseManager call: lock free, nothing cached, no thread
IdleDb == [lock |-> 0, cache |-> [has |-> FALSE, data |-> 0],
           file |-> [exists |-> FALSE, data |-> 0], th |-> << >>, calls |-> 0]

BgIdle ==
    /\ wr = IdleWr /\ conc = IdleConc /\ sched = IdleSched /\ req = IdleReq
    /\ portfolio = IdlePortfolio /\ db = IdleDb

(***************************************************************************)
(* Specification SpecCache: any sequence of update_rates_cache calls.      *)
(***************************************************************************)
Sources == {"CoinGecko", "ExchangeRate-API"}
IoOutcomes == {"ok", "oserror"}

\* dicts {pair: rate} over the given pair keys
RateMaps(keys) == UNION {[ks -> Rates] : ks \in SUBSET keys}

NoCall == [tick |-> 0, raised |-> "nocall", skipped |-> {}, applied |-> {},
           returned |-> [kind |-> "nocall", val |-> 0]]

\* cache files the program itself has written
InitCacheFiles ==
    {NoFile} \cup
    {FileOf(Snapshot([p \in {BTC_USD} |-> Entry(1, Strftime(t), "CoinGecko")],
                     Strftime(t))) : t \in Ticks}

OrderIdle == batch = {} /\ pending = {}

CacheInit ==
    /\ ratesFile \in InitCacheFiles
    /\ cache0 = NoFile
    /\ last = NoCall
    /\ OrderIdle
    /\ UpdIdle
    /\ BgIdle

\* update_rates_cache(rates, source, timestamp), the timestamp formatted by
\* the caller (or by the function itself) from the clock reading t
UpdateCall ==
    \E rates \in RateMaps(ValidPairs), source \in Sources,
       t \in Ticks, io \in IoOutcomes :
        \E res \in {UpdateRatesCache(ratesFile, rates, source, Strftime(t), t, io)} :
            /\ ratesFile' = res.file
            /\ last' = [tick |-> t, raised |-> res.raised,
                        skipped |-> DOMAIN rates \ res.applied,
                        applied |-> res.applied, returned |-> res.ret]
            /\ UNCHANGED <<orderVars, cache0, updVars, bgVars>>

CacheNext == UpdateCall

SpecCache == CacheInit /\ [][CacheNext]_vars

\* the pairs dict a reader finds at the canonical path
PairsOf(f) == ReadRatesCache(f, 0).data.pairs

(***************************************************************************)
(* Specification SpecOrder: a fixed set of calls on one pair, applied in   *)
(* any order, each possibly made a second time right after the first.      *)
(***************************************************************************)
BatchCalls(p) == [pair : {p}, rate : Rates, tick : BatchTicks]

NoBatchCall == [pair |-> << >>, rate |-> 0, tick |-> 0, raised |-> "nocall",
                applied |-> FALSE, repeat |-> FALSE]

OrderInit ==
    /\ ratesFile \in InitCacheFiles
    /\ cache0 = ratesFile
    /\ \E p \in ValidPairs :
         batch \in {b \in SUBSET BatchCalls(p) : Cardinality(b) \in 1 .. MaxCalls}
    /\ pending = batch
    /\ last = NoBatchCall
    /\ UpdIdle
    /\ BgIdle

BatchCall(c, io, again) ==
    \E res \in {UpdateRatesCache(ratesFile, [p \in {c.pair} |-> c.rate], "CoinGecko",
                                  Strftime(c.tick), c.tick, io)} :
        /\ ratesFile' = res.file
        /\ last' = [pair |-> c.pair, rate |-> c.rate, tick |-> c.tick,
                    raised |-> res.raised, applied |-> res.applied # {},
                    repeat |-> again]
        /\ pending' = IF res.raised = "none" THEN pending \ {c} ELSE pending
        /\ UNCHANGED <<batch, cache0, updVars, bgVars>>

ApplyPending == \E c \in pending, io \in IoOutcomes : BatchCall(c, io, FALSE)

\* the call that has just completed is made once more
Reapply ==
    /\ last.raised = "none"
    /\ ~last.repeat
    /\ \E io \in IoOutcomes :
         BatchCall([pair |-> last.pair, rate |-> last.rate, tick |-> last.tick],
                   io, TRUE)

OrderNext == ApplyPending \/ Reapply

SpecOrder == OrderInit /\ [][OrderNext]_vars

(***************************************************************************)
(* Specification SpecUpdate: one refresh cycle, RatesUpdater.run_update,   *)
(* on the files an earlier cycle left.                                     *)
(***************************************************************************)
ClientLists == UNION {[1 .. n -> ClientKinds] : n \in 0 .. MaxClients}

\* the files after an earlier cycle of the crypto adapter at time t
EarlierCache(t) ==
    FileOf(Snapshot([p \in {BTC_USD} |-> Entry(1, Strftime(t), "CoinGecko")],
                    Strftime(t)))
EarlierHistory(t) ==
    FileOf(HistoryLog(<<HistoryRecord(BTC_USD, 1, "CoinGecko", Strftime(t), "bitcoin")>>,
                      Strftime(t)))

UpdInit ==
    /\ \/ ratesFile = NoFile /\ historyFile = NoFile
       \/ \E t \in Ticks : ratesFile = EarlierCache(t) /\ historyFile = EarlierHistory(t)
    /\ cache0 = ratesFile
    /\ hist0 = historyFile
    /\ clients \in ClientLists
    /\ cyc = IdleUpd
    /\ last = NoCall
    /\ OrderIdle
    /\ BgIdle

\* lines 91-104
StartCycle ==
    /\ cyc.pc = "idle"
    /\ \E t \in Ticks : cyc' = [cyc EXCEPT !.pc = "clients", !.tick = t]
    /\ UNCHANGED <<ratesFile, last, orderVars, cache0, historyFile, hist0, clients, bgVars>>

\* what the cycle observed of one adapter: the outcome of its fetch and
\* whether every history append of its pairs succeeded
Observed(out, appended) ==
    [kind |-> out.kind, n |-> Len(out.items), msg |-> out.msg, appended |-> appended,
     items |-> out.items, client |-> cyc.i]

\* line 107: the for loop goes on to the next adapter whatever the outcome
NextClientMutRetryFailed(i, outcome) == IF outcome = "ok" THEN i + 1 ELSE i
NextClient(i, outcome) == i + 1

\* lines 107-169: one iteration of the loop over self.clients
ClientStep(out, failAt) ==
    LET kind == clients[cyc.i]
        u0   == [cyc EXCEPT !.i = NextClient(@, out.kind)]
        u1   == [u0 EXCEPT !.fetched = Append(@, Observed(out, FALSE))]
    IN  IF out.kind # "ok"
        THEN /\ cyc' = RecordFailure(u1, kind, out.msg)
             /\ UNCHANGED historyFile
        ELSE \E h \in {AppendAll(historyFile, out.items, 1, SourceOf(kind),
                                 Strftime(cyc.tick), failAt)} :
               /\ historyFile' = h.file
               /\ cyc' =
                    LET u2 == [u0 EXCEPT
                                 !.fetched = Append(@, Observed(out, h.raised = "none")),
                                 !.stats = CountFetched(@, kind, Len(out.items)),
                                 !.all_rates = DictUpdate(@, ItemsMap(out.items))]
                    IN  IF h.raised = "none"
                        THEN [u2 EXCEPT !.stats.success = @ + 1]
                        ELSE RecordFailure(u2, kind, h.raised)

ProcessClient ==
    /\ cyc.pc = "clients"
    /\ cyc.i <= Len(clients)
    /\ \E out \in FetchOutcomes(clients[cyc.i]) :
         \E failAt \in 0 .. Len(out.items) : ClientStep(out, failAt)
    /\ UNCHANGED <<ratesFile, last, orderVars, cache0, hist0, clients, bgVars>>

\* lines 172-175
RaiseAllFailed ==
    /\ cyc.pc = "clients"
    /\ cyc.i > Len(clients)
    /\ cyc.all_rates = EmptyMap
    /\ cyc' = [cyc EXCEPT !.pc = "done", !.result = "ApiRequestError",
                          !.msg = JoinErrors(cyc.errors)]
    /\ UNCHANGED <<ratesFile, last, orderVars, cache0, historyFile, hist0, clients, bgVars>>

\* lines 184-189
CryptoRates(all_rates) ==
    [p \in {q \in DOMAIN all_rates : Split(q)[1] \in CRYPTO_CURRENCIES} |-> all_rates[p]]
FiatRates(all_rates) ==
    [p \in {q \in DOMAIN all_rates : Split(q)[1] \notin CRYPTO_CURRENCIES} |-> all_rates[p]]

\* lines 192-198 and 201-207: update_rates_cache for a non-empty category
MergeCategory(f, rates, source, tick, io) ==
    IF rates = EmptyMap
    THEN [raised |-> "none", file |-> f, applied |-> {}, calls |-> << >>]
    ELSE LET res == UpdateRatesCache(f, rates, source, Strftime(tick), tick, io)
         IN  [raised |-> res.raised, file |-> res.file, applied |-> res.applied,
              calls |-> <<res.raised>>]

\* lines 209-212: a StorageError of the merge is counted and raised again;
\* any other exception leaves run_update as it is
MergeFailureMutTolerated(u, raised) ==
    [u EXCEPT !.pc = "done", !.result = "returned",
              !.stats.errors = @ + 1, !.stats.failed = @ + 1,
              !.stats.total_count = Cardinality(DOMAIN u.all_rates)]
MergeFailure(u, raised) ==
    [u EXCEPT !.pc = "done", !.result = raised,
              !.stats.errors = IF raised = "StorageError" THEN @ + 1 ELSE @]

\* lines 178-231: the cache merge, the statistics and the return; merged
\* lists how each update_rates_cache call ended
MergeCache ==
    /\ cyc.pc = "clients"
    /\ cyc.i > Len(clients)
    /\ cyc.all_rates # EmptyMap
    /\ IF \E p \in DOMAIN cyc.all_rates : Len(Split(p)) # 2
       THEN /\ cyc' = [cyc EXCEPT !.pc = "done", !.result = "ValueError"]
            /\ UNCHANGED ratesFile
       ELSE \E io1, io2 \in IoOutcomes :
            \E c \in {MergeCategory(ratesFile, CryptoRates(cyc.all_rates),
                                    "CoinGecko", cyc.tick, io1)} :
              LET u1 == [cyc EXCEPT !.merged = @ \o c.calls]
              IN
              IF c.raised # "none"
              THEN /\ ratesFile' = c.file
                   /\ cyc' = MergeFailure(u1, c.raised)
              ELSE \E f \in {MergeCategory(c.file, FiatRates(cyc.all_rates),
                                           "ExchangeRate-API", cyc.tick, io2)} :
                     LET u2 == [u1 EXCEPT !.merged = @ \o f.calls]
                     IN
                     /\ ratesFile' = f.file
                     /\ cyc' =
                          IF f.raised # "none"
                          THEN MergeFailure(u2, f.raised)
                          ELSE [u2 EXCEPT !.pc = "done", !.result = "returned",
                                  !.stats.total_count = Cardinality(DOMAIN cyc.all_rates)]
    /\ UNCHANGED <<last, orderVars, cache0, historyFile, hist0, clients, bgVars>>

UpdNext == StartCycle \/ ProcessClient \/ RaiseAllFailed \/ MergeCache

SpecUpdate == UpdInit /\ [][UpdNext]_vars

(***************************************************************************)
(* Claims about update_rates_cache                                         *)
(***************************************************************************)
\* the calls of batch on pair p that have been applied
AppliedOn(p) == {c \in batch \ pending : c.pair = p}
CallsOn(p) == {c \in batch : c.pair = p}
Latest(cs) == CHOOSE c \in cs : \A d \in cs : d.tick <= c.tick
DistinctTicks(cs) == \A c, d \in cs : c # d => c.tick # d.tick

\* C1: calls on one pair with pairwise distinct timestamps, applied in any
\* order to a cache holding no fresher entry, leave the rate and timestamp
\* of the call with the latest timestamp.
C1_LatestWins ==
    \A p \in ValidPairs :
        LET done == AppliedOn(p)
        IN  (/\ done # {}
             /\ DistinctTicks(CallsOn(p))
             /\ \/ p \notin DOMAIN PairsOf(cache0)
                \/ Strptime(PairsOf(cache0)[p].updated_at) < Latest(done).tick)
            => /\ p \in DOMAIN PairsOf(ratesFile)
               /\ PairsOf(ratesFile)[p].rate = Latest(done).rate
               /\ PairsOf(ratesFile)[p].updated_at = Strftime(Latest(done).tick)

\* all calls applied, the latest one not last, and the older call changed nothing
C1_Witness ==
    /\ pending = {}
    /\ \E p \in ValidPairs :
        /\ Cardinality(CallsOn(p)) >= 3
        /\ DistinctTicks(CallsOn(p))
        /\ last.pair = p
        /\ last.tick < Latest(CallsOn(p)).tick
        /\ last.rate # Latest(CallsOn(p)).rate
        /\ PairsOf(ratesFile)[p].rate = Latest(CallsOn(p)).rate

\* C2: the stored updated_at of a pair never decreases, and a call whose
\* timestamp is not strictly newer than the stored one leaves the entry as is.
C2_NoRegression ==
    [][LET old == PairsOf(ratesFile)
           new == PairsOf(ratesFile')
       IN  \A p \in DOMAIN old :
             /\ p \in DOMAIN new
             /\ Strptime(new[p].updated_at) >= Strptime(old[p].updated_at)
             /\ last'.tick <= Strptime(old[p].updated_at) => new[p] = old[p]]_vars

\* a completed call skipped a pair stored with a newer timestamp
C2_Witness ==
    /\ last.raised = "none"
    /\ \E p \in last.skipped :
        /\ last.tick < Strptime(PairsOf(ratesFile)[p].updated_at)
        /\ PairsOf(ratesFile)[p].source = "ExchangeRate-API"

\* C3: a call made a second time with the same pair, rate and timestamp
\* applies nothing and leaves the cache entry as the first call left it.
C3_Idempotent ==
    [][last'.repeat =>
         /\ ~last'.applied
         /\ PairsOf(ratesFile') = PairsOf(ratesFile)]_vars

\* the same call made twice, the first one having stored its rate
C3_Witness ==
    /\ last.repeat
    /\ last.raised = "none"
    /\ PairsOf(ratesFile)[last.pair] = Entry(last.rate, Strftime(last.tick), "CoinGecko")

(***************************************************************************)
(* Claims about RatesUpdater.run_update                                    *)
(***************************************************************************)
Seen == DOMAIN cyc.fetched
Done == cyc.pc = "done"
SomeFetched == \E k \in Seen : cyc.fetched[k].kind = "ok"
SomeFetchedPairs == \E k \in Seen : cyc.fetched[k].kind = "ok" /\ cyc.fetched[k].n > 0
SomeFailed == \E k \in Seen : cyc.fetched[k].kind # "ok"
AllFailed == \A k \in Seen : cyc.fetched[k].kind # "ok"
SomeAppended == \E k \in Seen : cyc.fetched[k].kind = "ok" /\ cyc.fetched[k].appended

C5_AllFailed ==
    AllFailed =>
        /\ ratesFile = cache0
        /\ historyFile = hist0
        /\ Done =>
              /\ cyc.result = "ApiRequestError"
              /\ \A k \in Seen :
                    \E j \in DOMAIN cyc.msg :
                        cyc.msg[j] = <<clients[k], cyc.fetched[k].msg>>

C5_Witness ==
    /\ Done
    /\ Len(clients) = 2
    /\ AllFailed
    /\ cyc.fetched[1].msg # cyc.fetched[2].msg
    /\ cyc.result = "ApiRequestError"
    /\ Len(cyc.msg) = 2
    /\ ratesFile # NoFile /\ ratesFile = cache0
    /\ historyFile # NoFile /\ historyFile = hist0

(***************************************************************************)
(* Specification SpecWrite: write_rates_cache and                          *)
(* write_exchange_rates_history step by step, with the process killed or   *)
(* the file system failing at any step.                                    *)
(***************************************************************************)
\* tempfile.NamedTemporaryFile(dir=filepath.parent, delete=False,
\* suffix=".tmp"): a fresh name next to the canonical file
TmpPathMutInPlace(filepath) == filepath
TmpPath(filepath) == "tmp"

FileAt(path) ==
    CASE path = "rates" -> ratesFile
      [] path = "history" -> historyFile
      [] OTHER -> wr.tmp

\* the file system after path is given the file, w being the writer's state
PutFile(path, file, w) ==
    /\ ratesFile' = IF path = "rates" THEN file ELSE ratesFile
    /\ historyFile' = IF path = "history" THEN file ELSE historyFile
    /\ wr' = [w EXCEPT !.tmp = IF path = "tmp" THEN file ELSE @]

\* the data argument: snapshots and logs as update_rates_cache and
\* add_history_record build them
WriteData(target) ==
    IF target = "rates"
    THEN {Snapshot(EmptyMap, None)} \cup
         {Snapshot([p \in {BTC_USD} |-> Entry(r, Strftime(t), "CoinGecko")], Strftime(t)) :
             r \in Rates, t \in Ticks}
    ELSE {HistoryLog(<<HistoryRecord(BTC_USD, r, "CoinGecko", Strftime(t), "bitcoin")>>,
                     Strftime(t)) : r \in Rates, t \in Ticks}

WriteInit ==
    /\ ratesFile \in InitCacheFiles
    /\ historyFile \in {NoFile} \cup {EarlierHistory(t) : t \in Ticks}
    /\ cache0 = ratesFile
    /\ hist0 = historyFile
    /\ wr = IdleWr
    /\ portfolio = IdlePortfolio /\ db = IdleDb
    /\ last = NoCall
    /\ OrderIdle
    /\ clients = << >>
    /\ cyc = IdleUpd
    /\ conc = IdleConc
    /\ sched = IdleSched
    /\ req = IdleReq

writeFrame == <<last, orderVars, clients, cyc, conc, sched, req, portfolio, db>>

\* lines 194-200 and 400-406: the temp file is created empty; a process
\* started after a kill writes again
BeginWrite ==
    /\ wr.pc \in {"idle", "killed"}
    /\ \E target \in {"rates", "history"} : \E data \in WriteData(target) :
         PutFile(TmpPath(target), [exists |-> TRUE, content |-> << >>],
                 [wr EXCEPT !.pc = "dump", !.target = target, !.data = data,
                            !.n = 0, !.raised = "none", !.step = "none"])
    /\ UNCHANGED <<cache0, hist0, writeFrame>>

\* lines 201 and 407: json.dump writes the document piece by piece
DumpChunk ==
    /\ wr.pc = "dump"
    /\ wr.n < Len(JsonDump(Dict(wr.data)))
    /\ PutFile(TmpPath(wr.target),
               [exists |-> TRUE,
                content |-> Append(FileAt(TmpPath(wr.target)).content,
                                   JsonDump(Dict(wr.data))[wr.n + 1])],
               [wr EXCEPT !.n = @ + 1])
    /\ UNCHANGED <<cache0, hist0, writeFrame>>

\* lines 205 and 411: os.replace(tmp_path, filepath) commits the document
Replace ==
    /\ wr.pc = "dump"
    /\ wr.n = Len(JsonDump(Dict(wr.data)))
    /\ PutFile(wr.target, FileAt(TmpPath(wr.target)),
               [wr EXCEPT !.pc = "idle",
                          !.tmp = IF TmpPath(wr.target) = "tmp" THEN NoFile ELSE @])
    /\ cache0' = IF wr.target = "rates" THEN FileOf(Dict(wr.data)) ELSE cache0
    /\ hist0' = IF wr.target = "history" THEN FileOf(Dict(wr.data)) ELSE hist0
    /\ UNCHANGED writeFrame

\* lines 211-215 and 415-419: OSError.  tmp_path is bound only after
\* json.dump, so the temp file is unlinked only when os.replace failed; step
\* names the statement that raised
WriteFails ==
    /\ wr.pc = "dump"
    /\ IF wr.n = Len(JsonDump(Dict(wr.data)))
       THEN PutFile(TmpPath(wr.target), NoFile,
                    [wr EXCEPT !.pc = "idle", !.raised = "StorageError",
                               !.step = "replace"])
       ELSE /\ wr' = [wr EXCEPT !.pc = "idle", !.raised = "StorageError",
                                !.step = "dump"]
            /\ UNCHANGED <<ratesFile, historyFile>>
    /\ UNCHANGED <<cache0, hist0, writeFrame>>

\* lines 190-200 and 396-406: mkdir or NamedTemporaryFile raises OSError,
\* no temp file exists and tmp_path is not bound
CreateFails ==
    /\ wr.pc \in {"idle", "killed"}
    /\ \E target \in {"rates", "history"} :
         wr' = [wr EXCEPT !.pc = "idle", !.target = target, !.n = 0,
                          !.raised = "StorageError", !.step = "create"]
    /\ UNCHANGED <<ratesFile, historyFile, cache0, hist0, writeFrame>>

\* the process is killed between the creation of the temp file and the rename
Kill ==
    /\ wr.pc = "dump"
    /\ wr' = [wr EXCEPT !.pc = "killed"]
    /\ UNCHANGED <<ratesFile, historyFile, cache0, hist0, writeFrame>>

WriteNext == BeginWrite \/ DumpChunk \/ Replace \/ WriteFails \/ CreateFails \/ Kill

SpecWrite == WriteInit /\ [][WriteNext]_vars

(***************************************************************************)
(* Claims about the atomic write                                           *)
(***************************************************************************)
\* C6: at every step of a write, an interrupted one included, the canonical
\* path of the cache and of the history holds the complete document committed
\* last, and a reader of the canonical path loads it without error.
C6_AtomicWrite ==
    /\ ratesFile = cache0
    /\ historyFile = hist0
    /\ ReadRatesCache(ratesFile, 9).raised = "none"
    /\ ReadHistory(historyFile).raised = "none"

C6_Witness ==
    /\ wr.pc = "killed"
    /\ wr.target = "rates"
    /\ wr.tmp.exists
    /\ Len(wr.tmp.content) \in {1, 2}
    /\ ratesFile.exists
    /\ ratesFile # FileOf(Dict(wr.data))
    /\ ratesFile = cache0
    /\ JsonValid(ratesFile.content)

(***************************************************************************)
(* Specification SpecConc: two refresh cycles in one process, one run by   *)
(* the scheduler's thread and one triggered by hand, each with one adapter *)
(* that returned one pair.  storage.py takes no lock: the reads and the    *)
(* writes of the two threads interleave freely.                            *)
(***************************************************************************)
Threads == {1, 2}

NewThread == [pc |-> "start", pair |-> << >>, rate |-> 0, tick |-> 0,
              rd |-> [raised |-> "none", data |-> EmptyMap]]

ConcInit ==
    /\ \/ ratesFile = NoFile /\ historyFile = NoFile
       \/ \E t \in Ticks : ratesFile = EarlierCache(t) /\ historyFile = EarlierHistory(t)
    /\ cache0 = ratesFile
    /\ hist0 = historyFile
    /\ conc = [th |-> [i \in Threads |-> NewThread], acked |-> {}]
    /\ last = NoCall
    /\ OrderIdle
    /\ clients = << >>
    /\ cyc = IdleUpd
    /\ wr = IdleWr
    /\ portfolio = IdlePortfolio /\ db = IdleDb
    /\ sched = IdleSched
    /\ req = IdleReq

concFrame == <<last, orderVars, cache0, hist0, clients, cyc, wr, sched, req, portfolio, db>>

\* updater.py lines 91 and 116: the cycle's timestamp and the fetched pair
CycleStart(i) ==
    /\ conc.th[i].pc = "start"
    /\ \E p \in ValidPairs, r \in Rates, t \in Ticks :
         conc' = [conc EXCEPT !.th[i] = [@ EXCEPT !.pc = "h_read", !.pair = p,
                                                   !.rate = r, !.tick = t]]
    /\ UNCHANGED <<ratesFile, historyFile, concFrame>>

\* storage.py line 278: history = read_exchange_rates_history(cfg)
HistoryRead(i) ==
    /\ conc.th[i].pc = "h_read"
    /\ conc' = [conc EXCEPT !.th[i] = [@ EXCEPT !.pc = "h_write",
                                                 !.rd = ReadHistory(historyFile)]]
    /\ UNCHANGED <<ratesFile, historyFile, concFrame>>

\* the configured adapter that returns the pair
AdapterOf(pair) ==
    IF Split(pair)[1] \in CRYPTO_CURRENCIES THEN "CoinGeckoClient"
    ELSE "ExchangeRateApiClient"

RecordOf(th) ==
    HistoryRecord(th.pair, th.rate, SourceOf(AdapterOf(th.pair)), Strftime(th.tick),
                  CryptoId(Split(th.pair)[1]))

\* storage.py lines 281-286: append to what was read, write the whole log.
\* run_update logs a failure of the append and goes on to the cache merge
HistoryWrite(i) ==
    /\ conc.th[i].pc = "h_write"
    /\ \E io \in IoOutcomes :
         \E res \in {AppendAndWrite(historyFile, conc.th[i].rd,
                                    RecordOf(conc.th[i]), io)} :
           /\ historyFile' = res.file
           /\ conc' = [conc EXCEPT
                         !.th[i] = [@ EXCEPT !.pc = "c_read"],
                         !.acked = IF res.raised = "none"
                                   THEN @ \cup {[kind |-> "history",
                                                 record |-> RecordOf(conc.th[i])]}
                                   ELSE @]
    /\ UNCHANGED <<ratesFile, concFrame>>

\* storage.py line 445: cache = read_rates_cache(cfg)
CacheRead(i) ==
    /\ conc.th[i].pc = "c_read"
    /\ conc' = [conc EXCEPT !.th[i] = [@ EXCEPT !.pc = "c_write",
                                 !.rd = ReadRatesCache(ratesFile, conc.th[i].tick)]]
    /\ UNCHANGED <<ratesFile, historyFile, concFrame>>

\* storage.py lines 448-473: merge into what was read, write the whole cache
CacheWrite(i) ==
    /\ conc.th[i].pc = "c_write"
    /\ \E io \in IoOutcomes :
         \E res \in {MergeAndWrite(ratesFile, conc.th[i].rd,
                                   [p \in {conc.th[i].pair} |-> conc.th[i].rate],
                                   SourceOf(AdapterOf(conc.th[i].pair)),
                                   Strftime(conc.th[i].tick), io)} :
           /\ ratesFile' = res.file
           /\ conc' = [conc EXCEPT
                         !.th[i] = [@ EXCEPT !.pc = "done"],
                         !.acked = IF res.raised = "none" /\ res.applied # {}
                                   THEN @ \cup {[kind |-> "cache",
                                                 pair |-> conc.th[i].pair,
                                                 updated_at |-> Strftime(conc.th[i].tick)]}
                                   ELSE @]
    /\ UNCHANGED <<historyFile, concFrame>>

ConcNext ==
    \E i \in Threads :
        CycleStart(i) \/ HistoryRead(i) \/ HistoryWrite(i) \/ CacheRead(i) \/ CacheWrite(i)

SpecConc == ConcInit /\ [][ConcNext]_vars

(***************************************************************************)
(* Claims about concurrent cycles                                          *)
(***************************************************************************)
Range(seq) == {seq[k] : k \in DOMAIN seq}

InReadModifyWrite(i, store) ==
    conc.th[i].pc = (IF store = "history" THEN "h_write" ELSE "c_write")

\* what a cycle appended or applied is still in the store, a cache entry
\* possibly replaced by a fresher one of the same pair
Kept(a) ==
    IF a.kind = "history"
    THEN a.record \in Range(RecordsOf(historyFile))
    ELSE /\ a.pair \in DOMAIN PairsOf(ratesFile)
         /\ StrGE(CachedTimestamp(PairsOf(ratesFile)[a.pair]), a.updated_at)

\* C7 as stated: the read-modify-write sections of the two cycles on one
\* store never overlap, and no history record appended and no cache entry
\* applied by one cycle is lost to the other cycle's write.
C7_Serialized ==
    /\ \A store \in {"history", "cache"} :
          ~(InReadModifyWrite(1, store) /\ InReadModifyWrite(2, store))
    /\ \A a \in conc.acked : Kept(a)

(***************************************************************************)
(* Specification SpecSched: a RatesScheduler, the thread that calls        *)
(* start() and stop() on it, and the loop threads it creates.  Every       *)
(* statement that reads or writes self.running or self._stop_event is a    *)
(* step of its own.                                                        *)
(***************************************************************************)
SchedInit ==
    /\ sched = IdleSched
    /\ ratesFile = NoFile
    /\ historyFile = NoFile
    /\ cache0 = NoFile
    /\ hist0 = NoFile
    /\ last = NoCall
    /\ OrderIdle
    /\ clients = << >>
    /\ cyc = IdleUpd
    /\ wr = IdleWr
    /\ portfolio = IdlePortfolio /\ db = IdleDb
    /\ conc = IdleConc
    /\ req = IdleReq

schedFrame == <<ratesFile, last, orderVars, cache0, updVars, wr, conc, req,
               portfolio, db>>

LoopThreads == DOMAIN sched.threads
Alive(t) == sched.threads[t].pc # "done"

\* line 77: the test of start()
AlreadyRunningMutNever(running) == FALSE
AlreadyRunning(running) == running

\* line 77: if self.running: raise RuntimeError
StartRaises ==
    /\ sched.main = "idle"
    /\ AlreadyRunning(sched.running)
    /\ sched' = [sched EXCEPT !.ret = "RuntimeError"]
    /\ UNCHANGED schedFrame

\* line 80: self.running = True
StartSetRunning ==
    /\ sched.main = "idle"
    /\ ~AlreadyRunning(sched.running)
    /\ Len(sched.threads) < MaxStarts
    /\ sched' = [sched EXCEPT !.main = "start_clear", !.running = TRUE]
    /\ UNCHANGED schedFrame

\* line 81: self._stop_event.clear()
StartClearEvent ==
    /\ sched.main = "start_clear"
    /\ sched' = [sched EXCEPT !.main = "start_spawn", !.event = FALSE]
    /\ UNCHANGED schedFrame

\* lines 82-83: self.thread = threading.Thread(...); self.thread.start()
StartSpawn ==
    /\ sched.main = "start_spawn"
    /\ sched' = [sched EXCEPT !.main = "idle", !.ret = "started",
                   !.threads = Append(@, [pc |-> "test_running", outcome |-> "none"]),
                   !.thread = Len(sched.threads) + 1]
    /\ UNCHANGED schedFrame

\* lines 93-95: if not self.running: return
StopNotRunning ==
    /\ sched.main = "idle"
    /\ ~sched.running
    /\ sched' = [sched EXCEPT !.ret = "not_running"]
    /\ UNCHANGED schedFrame

\* line 98: self.running = False
StopSetRunning ==
    /\ sched.main = "idle"
    /\ sched.running
    /\ sched' = [sched EXCEPT !.main = "stop_set", !.running = FALSE]
    /\ UNCHANGED schedFrame

\* line 99: self._stop_event.set()
StopSetEvent ==
    /\ sched.main = "stop_set"
    /\ sched' = [sched EXCEPT !.main = "stop_join", !.event = TRUE]
    /\ UNCHANGED schedFrame

\* lines 101-107: join(timeout) returns because the thread has exited
StopJoined ==
    /\ sched.main = "stop_join"
    /\ sched.thread = 0 \/ ~Alive(sched.thread)
    /\ sched' = [sched EXCEPT !.main = "idle", !.ret = "joined"]
    /\ UNCHANGED schedFrame

\* lines 101-105: join(timeout) returns because the timeout has passed
StopJoinTimesOut ==
    /\ sched.main = "stop_join"
    /\ sched.thread # 0 /\ Alive(sched.thread)
    /\ sched' = [sched EXCEPT !.main = "idle", !.ret = "timeout"]
    /\ UNCHANGED schedFrame

\* line 51, first operand: while self.running
TestRunning(t) ==
    /\ t \in LoopThreads
    /\ sched.threads[t].pc = "test_running"
    /\ sched' = [sched EXCEPT !.threads[t].pc =
                    IF sched.running THEN "test_event" ELSE "done"]
    /\ UNCHANGED schedFrame

\* line 51, second operand: and not self._stop_event.is_set()
TestEvent(t) ==
    /\ t \in LoopThreads
    /\ sched.threads[t].pc = "test_event"
    /\ sched' = [sched EXCEPT !.threads[t].pc =
                    IF ~sched.event THEN "cycle" ELSE "done"]
    /\ UNCHANGED schedFrame

\* lines 52-64: the statement after the try, whether update_all_rates
\* returned or raised an Exception
AfterCycleMutDies(outcome) == IF outcome = "raised" THEN "done" ELSE "wait"
AfterCycle(outcome) == "wait"

\* lines 52-64: update_all_rates(self.config) returns or raises
CycleEnds(t) ==
    /\ t \in LoopThreads
    /\ sched.threads[t].pc = "cycle"
    /\ \E outcome \in {"ok", "raised"} :
         sched' = [sched EXCEPT !.threads[t] =
                      [pc |-> AfterCycle(outcome), outcome |-> outcome]]
    /\ UNCHANGED schedFrame

\* line 67: Event.wait(timeout) returns at once when the event is set
WaitWakesMutSleep(event) == FALSE
WaitWakes(event) == event

WaitWoken(t) ==
    /\ t \in LoopThreads
    /\ sched.threads[t].pc = "wait"
    /\ WaitWakes(sched.event)
    /\ sched' = [sched EXCEPT !.threads[t].pc = "test_running"]
    /\ UNCHANGED schedFrame

\* line 67: Event.wait(self.interval) returns after the interval
WaitElapses(t) ==
    /\ t \in LoopThreads
    /\ sched.threads[t].pc = "wait"
    /\ sched' = [sched EXCEPT !.threads[t].pc = "test_running"]
    /\ UNCHANGED schedFrame

StartStep == StartRaises \/ StartSetRunning \/ StartClearEvent \/ StartSpawn

StopStep == StopNotRunning \/ StopSetRunning \/ StopSetEvent \/ StopJoined
            \/ StopJoinTimesOut

\* the steps of a loop thread that do not wait for the interval
LoopStep(t) == TestRunning(t) \/ TestEvent(t) \/ CycleEnds(t) \/ WaitWoken(t)

SchedNext ==
    \/ StartStep
    \/ StopStep
    \/ \E t \in 1 .. MaxStarts : LoopStep(t) \/ WaitElapses(t)

SpecSched == SchedInit /\ [][SchedNext]_vars

\* The scheduling the code relies on: a thread that can take a step takes
\* it, a cycle ends (requests time out, retries are bounded), join(timeout)
\* returns.  Nothing obliges the interval of a wait to elapse.
SpecSchedFair ==
    /\ SchedInit
    /\ [][SchedNext]_vars
    /\ WF_vars(StartClearEvent \/ StartSpawn)
    /\ WF_vars(StopSetEvent \/ StopJoined \/ StopJoinTimesOut)
    /\ \A t \in 1 .. MaxStarts : WF_vars(LoopStep(t))

(***************************************************************************)
(* Claims about the scheduler                                              *)
(***************************************************************************)
\* C8 as stated: across any sequence of start() and stop() calls at most
\* one loop thread is alive.
C8_SingleLoop == Cardinality({t \in LoopThreads : Alive(t)}) <= 1

\* C9: a cycle, whether it returned or raised, is followed by the wait of
\* the interval and the wait by the loop test; a loop thread terminates only
\* at a loop test that finds self.running false or the stop event set.
C9_LoopSurvives ==
    [][\A t \in LoopThreads :
          /\ (sched.threads[t].pc = "cycle" /\ sched'.threads[t].pc # "cycle")
                => sched'.threads[t].pc = "wait"
          /\ (sched.threads[t].pc = "wait" /\ sched'.threads[t].pc # "wait")
                => sched'.threads[t].pc = "test_running"
          /\ (sched.threads[t].pc = "test_running" /\ sched.running)
                => sched'.threads[t].pc \in {"test_running", "test_event"}
          /\ (sched.threads[t].pc = "test_event" /\ ~sched.event)
                => sched'.threads[t].pc \in {"test_event", "cycle"}
          /\ (Alive(t) /\ sched'.threads[t].pc = "done")
                => (~sched.running \/ sched.event)]_vars

\* a loop thread is in a cycle again after a cycle that raised
C9_Witness ==
    \E t \in LoopThreads :
        /\ sched.threads[t].pc = "cycle"
        /\ sched.threads[t].outcome = "raised"
        /\ sched.running /\ ~sched.event

\* stop() has signalled and no start() has followed
Stopped == ~sched.running /\ sched.event

Waiting(t) == t \in LoopThreads /\ sched.threads[t].pc = "wait"
Looping(t) == t \in LoopThreads /\ Alive(t)

\* C10: once stop() has set its signals and until a later start(): a waiting
\* loop thread leaves its wait, no loop thread enters a cycle, every loop
\* thread terminates, a cycle in flight ends before its thread exits, and
\* stop() returns without raising.
C10_Stop ==
    /\ \A t \in 1 .. MaxStarts :
          /\ (Waiting(t) /\ Stopped) ~> (~Waiting(t) \/ ~Stopped)
          /\ (Looping(t) /\ Stopped) ~> (~Looping(t) \/ ~Stopped)
    /\ [][\A t \in LoopThreads :
             /\ (sched.threads[t].pc # "cycle" /\ sched'.threads[t].pc = "cycle")
                   => ~sched.event
             /\ sched.threads[t].pc = "cycle" => sched'.threads[t].pc # "done"]_vars
    /\ (sched.main \in {"stop_set", "stop_join"}) ~> (sched.main = "idle")
    /\ [][sched.main \in {"stop_set", "stop_join"}
             => sched'.ret \in {sched.ret, "joined", "timeout"}]_vars

\* stop() timed out on a cycle in flight, and the thread has exited since
C10_Witness ==
    /\ sched.main = "idle"
    /\ sched.ret = "timeout"
    /\ Stopped
    /\ sched.thread # 0
    /\ ~Alive(sched.thread)
    /\ sched.threads[sched.thread].outcome # "none"

\* C11: while self.running is true, a call of start() only raises
\* RuntimeError: the caller's next step is either that rejection, which
\* leaves the flag, the event, self.thread and the list of threads as they
\* are, or the first statement of stop(); no start() gets past its test.
C11_StartRejected ==
    [][(sched.main = "idle" /\ sched.running) =>
          /\ sched'.main \in {"idle", "stop_set"}
          /\ sched'.main = "idle" =>
                /\ sched'.running = sched.running
                /\ sched'.event = sched.event
                /\ sched'.thread = sched.thread
                /\ Len(sched'.threads) = Len(sched.threads)
                /\ sched'.ret \in {sched.ret, "RuntimeError"}]_vars

C11_Witness ==
    /\ sched.main = "idle"
    /\ sched.ret = "RuntimeError"
    /\ sched.running
    /\ Len(sched.threads) = 1
    /\ sched.thread = 1
    /\ Alive(1)

(***************************************************************************)
(* Specification SpecHistory: any sequence of add_history_record calls by  *)
(* one thread, the calls of a refresh cycle among them.                    *)
(***************************************************************************)
\* history files: none, one written by an earlier cycle, and a legacy one
\* without the "history" key (repaired in memory, lines 157-162)
InitHistoryFiles ==
    {NoFile, FileOf(Dict([last_updated |-> Strftime(9)]))}
    \cup {EarlierHistory(t) : t \in Ticks}

HistoryInit ==
    /\ historyFile \in InitHistoryFiles
    /\ hist0 = historyFile
    /\ last = NoCall
    /\ ratesFile = NoFile
    /\ cache0 = NoFile
    /\ OrderIdle
    /\ clients = << >>
    /\ cyc = IdleUpd
    /\ BgIdle

\* add_history_record(pair, rate, source, timestamp, raw_id, ...)
AppendCall ==
    /\ Len(RecordsOf(historyFile)) < MaxRecords
    /\ \E pair \in ValidPairs \cup {BadCode, OnePart}, rate \in {1, MaxRate},
          t \in Ticks, io \in IoOutcomes :
         \E res \in {AddHistoryRecord(historyFile, pair, rate, SourceOf(AdapterOf(pair)),
                                      Strftime(t), CryptoId(Split(pair)[1]), io)} :
           /\ historyFile' = res.file
           /\ last' = [tick |-> t, raised |-> res.raised, pair |-> pair, rate |-> rate]
    /\ UNCHANGED <<ratesFile, orderVars, cache0, hist0, clients, cyc, bgVars>>

HistoryNext == AppendCall

SpecHistory == HistoryInit /\ [][HistoryNext]_vars

(***************************************************************************)
(* Claims about the history log                                            *)
(***************************************************************************)
IsPrefix(a, b) == Len(a) <= Len(b) /\ \A k \in DOMAIN a : b[k] = a[k]

\* C12: a successful add_history_record puts exactly its record at the end
\* of the list and sets last_updated to the record's timestamp, a failed one
\* leaves the file alone, and the records the log had at the start stay at
\* the head of the list, unmodified and in order.
C12_AppendOnly ==
    /\ [](IsPrefix(RecordsOf(hist0), RecordsOf(historyFile)))
    /\ [][IF last'.raised = "none"
          THEN /\ RecordsOf(historyFile') =
                     Append(RecordsOf(historyFile),
                            HistoryRecord(last'.pair, last'.rate,
                                          SourceOf(AdapterOf(last'.pair)),
                                          Strftime(last'.tick),
                                          CryptoId(Split(last'.pair)[1])))
               /\ ReadHistory(historyFile').data.last_updated = Strftime(last'.tick)
          ELSE historyFile' = historyFile]_vars

C12_Witness ==
    /\ last.raised = "none"
    /\ Len(RecordsOf(hist0)) = 1
    /\ Len(RecordsOf(historyFile)) = 3
    /\ RecordsOf(historyFile)[2].from # RecordsOf(historyFile)[3].from
    /\ Strptime(RecordsOf(historyFile)[3].updated_at)
          < Strptime(RecordsOf(historyFile)[2].updated_at)

(***************************************************************************)
(* Claims about a cycle in which every adapter succeeds                    *)
(***************************************************************************)
AllSucceeded == Done /\ cyc.result = "returned" /\ cyc.stats.failed = 0

\* the records of the items adapter k returned, in the order returned
RECURSIVE RecordsFetched(_, _)
RecordsFetched(k, j) ==
    IF j > Len(cyc.fetched[k].items)
    THEN << >>
    ELSE <<HistoryRecord(cyc.fetched[k].items[j].pair, cyc.fetched[k].items[j].rate,
                         SourceOf(clients[k]), Strftime(cyc.tick),
                         CryptoId(Split(cyc.fetched[k].items[j].pair)[1]))>>
         \o RecordsFetched(k, j + 1)

\* the records of adapters k .. Len(clients)
RECURSIVE RecordsExpected(_)
RecordsExpected(k) ==
    IF k > Len(cyc.fetched) THEN << >>
    ELSE RecordsFetched(k, 1) \o RecordsExpected(k + 1)

\* the rate of pair p from the last adapter that returned it
RateFetched(p) ==
    LET ks == {k \in Seen : \E it \in Range(cyc.fetched[k].items) : it.pair = p}
        k  == CHOOSE x \in ks : \A y \in ks : y <= x
    IN  (CHOOSE it \in Range(cyc.fetched[k].items) : it.pair = p).rate

\* C13: after a cycle with timestamp T in which every adapter succeeded,
\* the history log is the log before the cycle followed by one record per
\* pair each adapter returned, and every returned pair that was absent from
\* the cache or stored with a timestamp older than T is in the cache with
\* the rate fetched (by the last adapter returning it) and updated_at = T.
C13_CycleEffect ==
    AllSucceeded =>
        /\ RecordsOf(historyFile) = RecordsOf(hist0) \o RecordsExpected(1)
        /\ \A p \in UNION {{it.pair : it \in Range(cyc.fetched[k].items)} : k \in Seen} :
              (p \notin DOMAIN PairsOf(cache0)
                 \/ ~StrGE(CachedTimestamp(PairsOf(cache0)[p]), Strftime(cyc.tick)))
              => /\ p \in DOMAIN PairsOf(ratesFile)
                 /\ PairsOf(ratesFile)[p].rate = RateFetched(p)
                 /\ PairsOf(ratesFile)[p].updated_at = Strftime(cyc.tick)

C13_Witness ==
    /\ AllSucceeded
    /\ clients = <<"CoinGeckoClient", "ExchangeRateApiClient">>
    /\ BTC_USD \in DOMAIN PairsOf(cache0)
    /\ Strptime(PairsOf(cache0)[BTC_USD].updated_at) < cyc.tick
    /\ Len(RecordsOf(historyFile)) = Len(RecordsOf(hist0)) + 2
    /\ PairsOf(ratesFile)[BTC_USD].updated_at = Strftime(cyc.tick)
    /\ PairsOf(ratesFile)[EUR_USD].updated_at = Strftime(cyc.tick)
    /\ PairsOf(ratesFile)[BTC_USD].rate = 2

(***************************************************************************)
(* Claims about the statistics                                             *)
(***************************************************************************)
\* the number of pairs returned by the last adapter of the class whose
\* fetch succeeded, 0 when there is none
CountOf(class) ==
    LET ks == {k \in Seen : clients[k] = class /\ cyc.fetched[k].kind = "ok"}
    IN  IF ks = {} THEN 0
        ELSE cyc.fetched[CHOOSE x \in ks : \A y \in ks : y <= x].n

\* C14 as stated: in the statistics run_update returns, total_count is the
\* number of distinct pairs fetched, crypto_count and fiat_count are the
\* numbers of pairs the crypto and the fiat adapter returned (0 for one that
\* failed), success and failed count the adapters whose fetch succeeded and
\* failed, and with one crypto and one fiat adapter
\* total_count = crypto_count + fiat_count.
C14_Statistics ==
    (Done /\ cyc.result = "returned") =>
        /\ cyc.stats.total_count =
              Cardinality(UNION {{it.pair : it \in Range(cyc.fetched[k].items)} : k \in Seen})
        /\ cyc.stats.crypto_count = CountOf("CoinGeckoClient")
        /\ cyc.stats.fiat_count = CountOf("ExchangeRateApiClient")
        /\ cyc.stats.success = Cardinality({k \in Seen : cyc.fetched[k].kind = "ok"})
        /\ cyc.stats.failed = Cardinality({k \in Seen : cyc.fetched[k].kind # "ok"})
        /\ (Len(clients) = 2 /\ Range(clients) = {"CoinGeckoClient", "ExchangeRateApiClient"})
              => cyc.stats.total_count = cyc.stats.crypto_count + cyc.stats.fiat_count

(***************************************************************************)
(* Specification SpecRequest: BaseApiClient._make_request, one step per    *)
(* HTTP request, against a server and a network that answer in any way.    *)
(***************************************************************************)
MAX_RETRIES == 3
RETRY_DELAY == 2

\* what self.session.get does: a response with a status code, or an
\* exception of requests.exceptions
Outcomes == {"200", "429", "500", "Timeout", "ConnectionError", "RequestException"}

\* lines 87-123: the branch an outcome takes
ClassifyMutRetryAll(outcome) ==
    CASE outcome = "200" -> "return"
      [] outcome = "429" -> "rate_limit"
      [] OTHER -> "retry"
Classify(outcome) ==
    CASE outcome = "200" -> "return"
      [] outcome = "429" -> "rate_limit"
      [] outcome = "500" -> "http_error"
      [] outcome \in {"Timeout", "ConnectionError"} -> "retry"
      [] OTHER -> "request_error"

\* line 95: wait_time = self.config.RETRY_DELAY * (attempt + 2)
RateLimitDelayMutFixed(attempt) == RETRY_DELAY
RateLimitDelay(attempt) == RETRY_DELAY * (attempt + 2)

\* lines 125-127: the delay after a timeout or a connection error
RetryDelay(attempt, retries) == IF attempt < retries - 1 THEN RETRY_DELAY ELSE 0

\* line 76: for attempt in range(retries) has run out
LoopEndsMutOneMore(attempt, retries) == attempt > retries
LoopEnds(attempt, retries) == attempt >= retries

RequestInit ==
    /\ req = IdleReq
    /\ ratesFile = NoFile
    /\ historyFile = NoFile
    /\ cache0 = NoFile
    /\ hist0 = NoFile
    /\ last = NoCall
    /\ OrderIdle
    /\ clients = << >>
    /\ cyc = IdleUpd
    /\ wr = IdleWr
    /\ portfolio = IdlePortfolio /\ db = IdleDb
    /\ conc = IdleConc
    /\ sched = IdleSched

requestFrame == <<ratesFile, last, orderVars, cache0, updVars, wr, conc, sched,
                 portfolio, db>>

\* lines 73-74: retries = max_retries or self.config.MAX_RETRIES
MakeRequest ==
    /\ req.pc \in {"idle", "done"}
    /\ \E max_retries \in 0 .. MaxRetriesArg :
         req' = [IdleReq EXCEPT !.pc = "attempt", !.max_retries = max_retries,
                    !.retries = IF max_retries = 0 THEN MAX_RETRIES ELSE max_retries]
    /\ UNCHANGED requestFrame

\* the state after the body of the loop for the outcome, r being the state
\* with the request recorded
AfterOutcome(r, outcome) ==
    CASE Classify(outcome) = "return" ->
           [r EXCEPT !.pc = "done", !.result = "response", !.slept = Append(@, 0)]
      [] Classify(outcome) = "rate_limit" ->
           [r EXCEPT !.slept = Append(@, RateLimitDelay(r.attempt)),
                     !.attempt = @ + 1]
      [] Classify(outcome) = "http_error" ->
           [r EXCEPT !.pc = "done", !.result = "ApiRequestError",
                     !.cause = outcome, !.slept = Append(@, 0)]
      [] Classify(outcome) = "retry" ->
           [r EXCEPT !.last_exception = outcome,
                     !.slept = Append(@, RetryDelay(r.attempt, r.retries)),
                     !.attempt = @ + 1]
      [] OTHER ->
           [r EXCEPT !.pc = "done", !.result = "ApiRequestError",
                     !.last_exception = outcome, !.cause = outcome,
                     !.slept = Append(@, 0)]

\* lines 129-133: all attempts are used up
Exhausted(r) ==
    IF r.pc = "attempt" /\ LoopEnds(r.attempt, r.retries)
    THEN [r EXCEPT !.pc = "done", !.result = "ApiRequestError",
                   !.cause = r.last_exception]
    ELSE r

\* lines 76-127: one pass of the loop, and lines 129-133 after the last
Attempt ==
    /\ req.pc = "attempt"
    /\ \E outcome \in Outcomes :
         req' = Exhausted(AfterOutcome([req EXCEPT !.seen = Append(@, outcome)], outcome))
    /\ UNCHANGED requestFrame

RequestNext == MakeRequest \/ Attempt

SpecRequest == RequestInit /\ [][RequestNext]_vars

(***************************************************************************)
(* Claims about _make_request                                              *)
(***************************************************************************)
Sent == Len(req.seen)
GaveUp == req.pc = "done" /\ req.result = "ApiRequestError"

\* C15: whatever the outcomes, a call sends at most retries requests; a
\* request that timed out or lost its connection is followed by a wait of
\* RETRY_DELAY and another request unless it was the last allowed; a 200
\* response ends the call, which returns it, and only a 200 does.
C15_BoundedRetries ==
    /\ Sent <= req.retries
    /\ Len(req.slept) = Sent
    /\ \A k \in DOMAIN req.seen :
          /\ req.seen[k] \in {"Timeout", "ConnectionError"} =>
                IF k < req.retries
                THEN req.slept[k] = RETRY_DELAY /\ (req.pc = "done" => k < Sent)
                ELSE req.slept[k] = 0 /\ GaveUp
          /\ req.seen[k] = "200" =>
                k = Sent /\ req.pc = "done" /\ req.result = "response"
    /\ req.result = "response" => req.seen[Sent] = "200"

C15_Witness ==
    /\ req.pc = "done"
    /\ req.max_retries = 0
    /\ req.seen = <<"Timeout", "ConnectionError", "200">>
    /\ req.slept = <<RETRY_DELAY, RETRY_DELAY, 0>>
    /\ req.result = "response"

\* C16 as stated: when the call gives up, the ApiRequestError carries the
\* last underlying cause, that is what the last request ended in, 429
\* responses included.
C16_LastCause == GaveUp => req.cause = req.seen[Sent]

\* C17: a response with a status other than 200 and 429, and a request
\* exception that is neither a timeout nor a connection error, end the call
\* at once with ApiRequestError: it is the last request and no delay is
\* waited after it, however many attempts remain.
C17_FailFast ==
    \A k \in DOMAIN req.seen :
        req.seen[k] \in {"500", "RequestException"} =>
            /\ k = Sent
            /\ GaveUp
            /\ req.slept[k] = 0
            /\ req.cause = req.seen[k]

C17_Witness ==
    /\ GaveUp
    /\ req.retries = 3
    /\ req.seen = <<"500">>
    /\ req.slept = <<0>>

\* C18 as stated: a 429 at attempt number a (from 0) is followed by a wait
\* of RETRY_DELAY * (a + 2), longer than RETRY_DELAY, before the retry, and
\* 429 responses do not use up the attempt cap as other failures do: a call
\* that gives up for lack of attempts has spent all of them on other failures.
C18_AsStated ==
    /\ \A k \in DOMAIN req.seen :
          req.seen[k] = "429" =>
              req.slept[k] = RETRY_DELAY * (k + 1) /\ req.slept[k] > RETRY_DELAY
    /\ (GaveUp /\ Classify(req.seen[Sent]) \in {"retry", "rate_limit"}) =>
          Cardinality({k \in DOMAIN req.seen : req.seen[k] # "429"}) = req.retries

\* C18, amended: a 429 at attempt number a (from 0) is followed by a wait of
\* RETRY_DELAY * (a + 2), longer than RETRY_DELAY, also after the last
\* attempt; it uses up one attempt of the cap exactly as a timeout does, so
\* a call gives up after retries requests whatever mix of 429 responses,
\* timeouts and connection errors they ended in.
C18_RateLimit ==
    /\ \A k \in DOMAIN req.seen :
          req.seen[k] = "429" =>
              req.slept[k] = RETRY_DELAY * (k + 1) /\ req.slept[k] > RETRY_DELAY
    /\ \A k \in DOMAIN req.seen :
          Classify(req.seen[k]) \in {"retry", "rate_limit"} =>
              IF k < req.retries THEN req.pc = "done" => k < Sent
              ELSE GaveUp /\ Sent = req.retries

C18_Witness ==
    /\ GaveUp
    /\ req.retries = 3
    /\ req.seen = <<"429", "Timeout", "429">>
    /\ req.slept = <<2 * RETRY_DELAY, RETRY_DELAY, 4 * RETRY_DELAY>>

(***************************************************************************)
(* Claims about the rates of the fiat adapter                              *)
(***************************************************************************)
\* C19 as stated: the fiat adapter returns no pair with a rate that is not
\* positive, and no record of the history log and no entry of the cache
\* holds such a rate.
C19_PositiveRates ==
    /\ \A k \in Seen :
          clients[k] = "ExchangeRateApiClient" =>
              \A it \in Range(cyc.fetched[k].items) : it.rate > 0
    /\ \A rec \in Range(RecordsOf(historyFile)) : rec.rate > 0
    /\ \A p \in DOMAIN PairsOf(ratesFile) : PairsOf(ratesFile)[p].rate > 0

(***************************************************************************)
(* Specification SpecRoundTrip: write_rates_cache(read_rates_cache()) on   *)
(* the cache files read_rates_cache can meet.                              *)
(***************************************************************************)
\* the entries a cache file can hold for the given pair keys
EntryMaps(keys) ==
    UNION {[ks -> {Entry(r, Strftime(t), "CoinGecko") : r \in Rates, t \in Ticks}] :
              ks \in SUBSET keys}

\* the canonical shape {"pairs": ..., "last_refresh": ...}
CanonicalFiles ==
    {FileOf(Snapshot(pairs, lr)) :
        pairs \in EntryMaps(ValidPairs), lr \in {None, Strftime(9)}}

\* the legacy shape {"rates": {CODE: rate}, "base_currency", "updated_at"},
\* each of the last two keys present or not
LegacyFiles ==
    LET rates == UNION {[cs -> Rates] : cs \in SUBSET {"EUR", "USD"}}
    IN  {FileOf(Dict([rates |-> m])) : m \in rates}
        \cup {FileOf(Dict([rates |-> m, base_currency |-> "USD"])) : m \in rates}
        \cup {FileOf(Dict([rates |-> m, updated_at |-> Strftime(9)])) : m \in rates}
        \cup {FileOf(Dict([rates |-> m, base_currency |-> "USD",
                           updated_at |-> Strftime(9)])) : m \in rates}

\* an object without "pairs", a JSON list, a truncated file
OtherFiles ==
    {FileOf(Dict([last_refresh |-> lr])) : lr \in {None, Strftime(9)}}
    \cup {FileOf([kind |-> "list", val |-> << >>]),
          [exists |-> TRUE, content |-> <<"{">>]}

RoundTripFiles == {NoFile} \cup CanonicalFiles \cup LegacyFiles \cup OtherFiles

NoTrip == [calls |-> 0, raised |-> "nocall", tick |-> 0, before |-> NoFile,
           data |-> EmptyMap]

RoundTripInit ==
    /\ ratesFile \in RoundTripFiles
    /\ cache0 = ratesFile
    /\ last = NoTrip
    /\ OrderIdle
    /\ UpdIdle
    /\ BgIdle

\* data = read_rates_cache(); write_rates_cache(data)
RoundTrip ==
    /\ last.calls < MaxCalls
    /\ \E now \in Ticks, io \in IoOutcomes :
         \E rd \in {ReadRatesCache(ratesFile, now)} :
           IF rd.raised # "none"
           THEN /\ last' = [calls |-> last.calls + 1, raised |-> rd.raised,
                            tick |-> now, before |-> ratesFile, data |-> EmptyMap]
                /\ UNCHANGED ratesFile
           ELSE \E res \in {WriteRatesCache(ratesFile, rd.data, io)} :
                  /\ ratesFile' = res.file
                  /\ last' = [calls |-> last.calls + 1, raised |-> res.raised,
                              tick |-> now, before |-> ratesFile, data |-> rd.data]
    /\ UNCHANGED <<orderVars, cache0, updVars, bgVars>>

RoundTripNext == RoundTrip

SpecRoundTrip == RoundTripInit /\ [][RoundTripNext]_vars

(***************************************************************************)
(* Claims about the round trip of the cache file                           *)
(***************************************************************************)
\* the file holds an object with a "pairs" key
Canonical(f) ==
    /\ f.exists
    /\ JsonValid(f.content)
    /\ JsonLoad(f.content).kind = "dict"
    /\ "pairs" \in DOMAIN JsonLoad(f.content).val

Legacy(f) ==
    /\ f.exists
    /\ JsonValid(f.content)
    /\ JsonLoad(f.content).kind = "dict"
    /\ "rates" \in DOMAIN JsonLoad(f.content).val

\* C20 as stated: whenever read_rates_cache accepted the file and the
\* snapshot was written back, the file holds the JSON value it held before.
C20_AsStated ==
    (last.calls > 0 /\ last.raised = "none" /\ last.before.exists)
        => ratesFile = last.before

\* C20: after a successful write_rates_cache(read_rates_cache()) a read
\* returns, at any time, the snapshot that was read before; the content of
\* the file is the same when the file held an object with a "pairs" key;
\* and a round trip that raised left the file as it was.
C20_RoundTrip ==
    /\ (last.calls > 0 /\ last.raised = "none") =>
          /\ \A now \in Ticks :
                ReadRatesCache(ratesFile, now) =
                    [raised |-> "none", data |-> last.data]
          /\ Canonical(last.before) => ratesFile = last.before
    /\ (last.calls > 0 /\ last.raised # "none") => ratesFile = last.before

\* a legacy file with a pair to migrate went through the round trip and a
\* second round trip, now of the canonical file, followed
C20_Witness ==
    /\ last.calls = 2
    /\ last.raised = "none"
    /\ Legacy(cache0)
    /\ Canonical(last.before)
    /\ DOMAIN last.data.pairs # {}
    /\ ratesFile # cache0

(***************************************************************************)
(* Specification SpecRead: read_rates_cache and                            *)
(* read_exchange_rates_history on the files they can meet.                 *)
(***************************************************************************)
\* JSON values that are no object: a number, null, lists
NonObjects ==
    {[kind |-> "number", val |-> <<5>>], [kind |-> "null", val |-> << >>],
     [kind |-> "list", val |-> << >>], [kind |-> "list", val |-> <<"rates">>]}

\* legacy files whose base currency is not the default one
LegacyFilesEUR ==
    {FileOf(Dict([rates |-> m, base_currency |-> "EUR"])) :
        m \in UNION {[cs -> Rates] : cs \in SUBSET {"EUR", "USD", "BTC"}}}

ReadCacheFiles ==
    RoundTripFiles \cup LegacyFilesEUR \cup {FileOf(v) : v \in NonObjects}

ReadHistoryFiles ==
    InitHistoryFiles \cup {FileOf(v) : v \in NonObjects}
    \cup {FileOf(Dict(EmptyMap)), [exists |-> TRUE, content |-> <<"{">>]}

NoRead == [op |-> "none", raised |-> "nocall", tick |-> 0, data |-> EmptyMap]

ReadInit ==
    /\ ratesFile \in ReadCacheFiles
    /\ cache0 = ratesFile
    /\ historyFile \in ReadHistoryFiles
    /\ hist0 = historyFile
    /\ last = NoRead
    /\ OrderIdle
    /\ clients = << >>
    /\ cyc = IdleUpd
    /\ BgIdle

\* data = read_rates_cache()
ReadSnapshotCall ==
    /\ \E now \in Ticks :
         \E rd \in {ReadRatesCache(ratesFile, now)} :
           last' = [op |-> "read_rates_cache", raised |-> rd.raised,
                    tick |-> now, data |-> rd.data]
    /\ UNCHANGED <<ratesFile, orderVars, cache0, updVars, bgVars>>

\* data = read_exchange_rates_history()
ReadHistoryCall ==
    /\ \E rd \in {ReadHistory(historyFile)} :
         last' = [op |-> "read_exchange_rates_history", raised |-> rd.raised,
                  tick |-> 0, data |-> rd.data]
    /\ UNCHANGED <<ratesFile, orderVars, cache0, updVars, bgVars>>

ReadNext == ReadSnapshotCall \/ ReadHistoryCall

SpecRead == ReadInit /\ [][ReadNext]_vars

(***************************************************************************)
(* Claims about the two reads                                              *)
(***************************************************************************)
\* the file holds an object with "rates" and without "pairs"
LegacyShape(f) == Legacy(f) /\ ~Canonical(f)

LegacyBase(f) ==
    IF "base_currency" \in DOMAIN JsonLoad(f.content).val
    THEN JsonLoad(f.content).val.base_currency ELSE "USD"

\* C21: read_rates_cache of a legacy file {rates, base_currency, updated_at}
\* returns a snapshot with the keys pairs and last_refresh whose pairs are
\* exactly CODE_BASE for every code other than the base currency, each with
\* the legacy rate and the source "migrated"; the file is left as it was.
C21_LegacyMigration ==
    /\ ratesFile = cache0
    /\ (last.op = "read_rates_cache" /\ LegacyShape(ratesFile)) =>
          LET rates == JsonLoad(ratesFile.content).val.rates
              base  == LegacyBase(ratesFile)
          IN  /\ last.raised = "none"
              /\ DOMAIN last.data = {"pairs", "last_refresh"}
              /\ DOMAIN last.data.pairs =
                     {<<c, base>> : c \in DOMAIN rates \ {base}}
              /\ \A p \in DOMAIN last.data.pairs :
                    /\ last.data.pairs[p].rate = rates[p[1]]
                    /\ last.data.pairs[p].source = "migrated"

\* a legacy file that lists its base currency and another one was read
C21_Witness ==
    /\ last.op = "read_rates_cache"
    /\ LegacyShape(ratesFile)
    /\ LegacyBase(ratesFile) \in DOMAIN JsonLoad(ratesFile.content).val.rates
    /\ DOMAIN last.data.pairs # {}

\* the file parses and its top-level JSON value is not an object
NotAnObject(f) ==
    f.exists /\ JsonValid(f.content) /\ JsonLoad(f.content).kind # "dict"

\* C24: read_exchange_rates_history returns the empty log for an absent
\* file, raises StorageError for a top-level value that is not an object,
\* returns the object with an empty "history" list when that key is missing;
\* the history file is never created or changed by the read.
C24_HistoryRead ==
    /\ historyFile = hist0
    /\ last.op = "read_exchange_rates_history" =>
          /\ ~historyFile.exists =>
                /\ last.raised = "none"
                /\ last.data = [history |-> << >>, last_updated |-> None]
          /\ NotAnObject(historyFile) => last.raised = "StorageError"
          /\ (historyFile.exists /\ JsonValid(historyFile.content)
              /\ ~NotAnObject(historyFile)) =>
                LET obj == JsonLoad(historyFile.content).val
                IN  /\ last.raised = "none"
                    /\ "history" \in DOMAIN last.data
                    /\ \A k \in DOMAIN obj \ {"history"} : last.data[k] = obj[k]
                    /\ last.data.history =
                          (IF "history" \in DOMAIN obj THEN obj.history ELSE << >>)

\* a file without the "history" key was read and is still without it
C24_Witness ==
    /\ last.op = "read_exchange_rates_history"
    /\ historyFile.exists
    /\ JsonValid(historyFile.content)
    /\ ~NotAnObject(historyFile)
    /\ "history" \notin DOMAIN JsonLoad(historyFile.content).val
    /\ last.data.history = << >>

\* C25 as stated: read_rates_cache returns {pairs: {}, last_refresh: null}
\* for an absent file and raises StorageError, and nothing else, for a file
\* whose top-level JSON value is not an object.
C25_CacheRead ==
    last.op = "read_rates_cache" =>
        /\ ~ratesFile.exists =>
              /\ last.raised = "none"
              /\ last.data = [pairs |-> EmptyMap, last_refresh |-> None]
        /\ NotAnObject(ratesFile) => last.raised = "StorageError"

(***************************************************************************)
(* Claims about what update_rates_cache leaves behind and hands back       *)
(***************************************************************************)
\* C22: after every update_rates_cache call that completed, last_refresh of
\* the file is the call's timestamp, whether all, some or none of the
\* incoming pairs were applied.
C22_LastRefresh ==
    last.raised = "none" =>
        ReadRatesCache(ratesFile, 0).data.last_refresh = Strftime(last.tick)

\* a call all of whose pairs were skipped, older than a stored entry
C22_Witness ==
    /\ last.raised = "none"
    /\ last.applied = {}
    /\ last.skipped # {}
    /\ \E p \in last.skipped :
          last.tick < Strptime(PairsOf(ratesFile)[p].updated_at)
    /\ ReadRatesCache(ratesFile, 0).data.last_refresh = Strftime(last.tick)

\* C23 as stated: a completed update_rates_cache call returns the number of
\* pairs it applied.
C23_ReturnsCount ==
    last.raised = "none" =>
        last.returned = [kind |-> "int", val |-> Cardinality(last.applied)]

(***************************************************************************)
(* Claims about the cache merge of a refresh cycle                         *)
(***************************************************************************)
FailedAdapters == {k \in Seen : cyc.fetched[k].kind # "ok" \/ ~cyc.fetched[k].appended}

\* C26: when an update_rates_cache call of the merge step raises
\* StorageError, run_update ends by raising StorageError and returns no
\* statistics, and the failure is not recorded as an adapter failure: the
\* failed count and the error list hold the failed adapters only.
C26_MergeFatal ==
    /\ (\E k \in DOMAIN cyc.merged : cyc.merged[k] = "StorageError") =>
          /\ Done
          /\ cyc.result = "StorageError"
          /\ cyc.merged[Len(cyc.merged)] = "StorageError"
          /\ cyc.stats.failed = Cardinality(FailedAdapters)
          /\ Len(cyc.errors) = Cardinality(FailedAdapters)
    /\ (Done /\ cyc.result = "returned") =>
          \A k \in DOMAIN cyc.merged : cyc.merged[k] = "none"

\* the merge of the crypto pairs went through and the one of the fiat pairs
\* raised StorageError
C26_Witness ==
    /\ Done
    /\ cyc.merged = <<"none", "StorageError">>
    /\ cyc.result = "StorageError"
    /\ ratesFile # cache0

\* the cache entries the cycle wrote: those that differ from what the cache
\* held when the cycle began
WrittenByCycle ==
    {p \in DOMAIN PairsOf(ratesFile) :
        p \notin DOMAIN PairsOf(cache0) \/ PairsOf(ratesFile)[p] # PairsOf(cache0)[p]}

\* the last adapter that returned pair p
LastReturning(p) ==
    LET ks == {k \in Seen : \E it \in Range(cyc.fetched[k].items) : it.pair = p}
    IN  CHOOSE x \in ks : \A y \in ks : y <= x

\* C29 as stated: every cache entry a refresh cycle wrote has as source the
\* provider name of the adapter that returned the pair, the source of the
\* history record of that pair in the cycle, whatever the list of adapters.
C29_Provenance ==
    \A p \in WrittenByCycle :
        PairsOf(ratesFile)[p].source = SourceOf(clients[LastReturning(p)])

\* C30 as stated: in every state of a refresh cycle, a pair whose cache
\* entry was written with the cycle's timestamp has a history record with
\* that pair and that timestamp.
C30_HistoryFirst ==
    \A p \in WrittenByCycle :
        PairsOf(ratesFile)[p].updated_at = Strftime(cyc.tick) =>
            \E rec \in Range(RecordsOf(historyFile)) :
                /\ <<rec.from, rec.to>> = p
                /\ rec.updated_at = Strftime(cyc.tick)

(***************************************************************************)
(* Specification SpecPrice: the consumers of the rates (portfolio          *)
(* valuation, buy, sell) next to update_rates_cache.  Money is counted in  *)
(* ten-thousandths: a rate of 10000 is 1.0, a balance of 10000 is one unit *)
(* of its currency.                                                        *)
(***************************************************************************)
\* the product and the quotient of two amounts counted in ten-thousandths,
\* computed by parts to stay inside the machine integers
FixMul(a, b) == (a \div 10000) * b + ((a % 10000) * b) \div 10000
FixDiv(a, b) == (a \div b) * 10000 + ((a % b) * 10000) \div b

\* core/utils.py, the table returned when the file has no "rates" key
DEFAULT_RATES ==
    [c \in {"USD", "EUR", "GBP", "RUB", "CNY", "JPY", "BTC", "ETH"} |->
        CASE c = "USD" -> 10000
          [] c = "EUR" -> 10800
          [] c = "GBP" -> 12700
          [] c = "RUB" -> 110
          [] c = "CNY" -> 1400
          [] c = "JPY" -> 67
          [] c = "BTC" -> 950000000
          [] c = "ETH" -> 35000000]

\* core/models.py, Portfolio.DEFAULT_EXCHANGE_RATES
DEFAULT_EXCHANGE_RATES ==
    [c \in {"USD", "EUR", "GBP", "RUB", "BTC", "ETH"} |-> DEFAULT_RATES[c]]

\* core/utils.py get_rates: data.get("rates", DEFAULT_RATES) of rates.json
get_rates(f) ==
    IF ~f.exists \/ ~JsonValid(f.content)
    THEN [raised |-> "none", rates |-> DEFAULT_RATES]
    ELSE IF JsonLoad(f.content).kind # "dict"
    THEN [raised |-> "AttributeError", rates |-> EmptyMap]
    ELSE IF "rates" \in DOMAIN JsonLoad(f.content).val
    THEN [raised |-> "none", rates |-> JsonLoad(f.content).val.rates]
    ELSE [raised |-> "none", rates |-> DEFAULT_RATES]

\* rates.get(code, 1.0)
RateOf(rates, code) == IF code \in DOMAIN rates THEN rates[code] ELSE 10000

\* exchange_rates or self.DEFAULT_EXCHANGE_RATES
PortfolioRates(exchange_rates) ==
    IF exchange_rates = EmptyMap THEN DEFAULT_EXCHANGE_RATES ELSE exchange_rates

\* Wallet.withdraw and Wallet.deposit on a balance
WithdrawMutNoFundsCheck(balance, amount) ==
    IF amount <= 0 THEN [raised |-> "InvalidAmountError", balance |-> balance]
    ELSE [raised |-> "none", balance |-> balance - amount]

Withdraw(balance, amount) ==
    IF amount <= 0 THEN [raised |-> "InvalidAmountError", balance |-> balance]
    ELSE IF amount > balance
    THEN [raised |-> "InsufficientFundsError", balance |-> balance]
    ELSE [raised |-> "none", balance |-> balance - amount]

Deposit(balance, amount) ==
    IF amount <= 0 THEN [raised |-> "InvalidAmountError", balance |-> balance]
    ELSE [raised |-> "none", balance |-> balance + amount]

\* the wallets with the balance of code set, the wallet added when missing
SetBalance(wallets, code, balance) ==
    [c \in DOMAIN wallets \cup {code} |-> IF c = code THEN balance ELSE wallets[c]]

BalanceOf(wallets, code) == IF code \in DOMAIN wallets THEN wallets[code] ELSE 0

\* Portfolio.buy_currency
PortfolioBuy(wallets, code, amount, exchange_rates) ==
    IF code = "USD" \/ "USD" \notin DOMAIN wallets
    THEN [raised |-> "ValueError", wallets |-> wallets]
    ELSE LET cost_usd == FixMul(amount, RateOf(PortfolioRates(exchange_rates), code))
             w == Withdraw(wallets["USD"], cost_usd)
             wallets1 == SetBalance(wallets, "USD", w.balance)
             d == Deposit(BalanceOf(wallets1, code), amount)
         IN  IF w.raised # "none" THEN [raised |-> w.raised, wallets |-> wallets]
             ELSE IF d.raised # "none" THEN [raised |-> d.raised, wallets |-> wallets]
             ELSE [raised |-> "none", wallets |-> SetBalance(wallets1, code, d.balance)]

\* Portfolio.sell_currency
PortfolioSell(wallets, code, amount, exchange_rates) ==
    IF code = "USD" \/ code \notin DOMAIN wallets
    THEN [raised |-> "ValueError", wallets |-> wallets]
    ELSE LET received_usd ==
                 FixMul(amount, RateOf(PortfolioRates(exchange_rates), code))
             w == Withdraw(wallets[code], amount)
             wallets1 == SetBalance(wallets, code, w.balance)
             d == Deposit(BalanceOf(wallets1, "USD"), received_usd)
         IN  IF w.raised # "none" THEN [raised |-> w.raised, wallets |-> wallets]
             ELSE IF d.raised # "none" THEN [raised |-> d.raised, wallets |-> wallets]
             ELSE [raised |-> "none", wallets |-> SetBalance(wallets1, "USD", d.balance)]

\* the currencies and the amounts (none, one unit) of the consumers' calls
PriceCodes == {"BTC", "EUR", "USD"}
Amounts == {0, 10000}

\* the wallets of a user who can pay one BTC at the table's rate, or cannot
InitWallets ==
    {[c \in {"USD"} |-> usd] : usd \in {20000, DEFAULT_RATES["BTC"]}}

NoPrice == [op |-> "none", raised |-> "nocall", code |-> "", amount |-> 0,
            rate |-> 0, values |-> EmptyMap, calls |-> 0]

PriceInit ==
    /\ ratesFile \in {NoFile} \cup {EarlierCache(t) : t \in Ticks}
                     \cup {FileOf(Dict([rates |-> [c \in {"BTC"} |-> r]])) : r \in Rates}
    /\ cache0 = ratesFile
    /\ last = NoPrice
    /\ OrderIdle
    /\ UpdIdle
    /\ wr = IdleWr /\ conc = IdleConc /\ sched = IdleSched /\ req = IdleReq
    /\ portfolio \in {[wallets |-> w] : w \in InitWallets}
    /\ db = IdleDb

\* a refresh stores one pair: update_rates_cache({pair: rate}, source, t)
Refresh ==
    /\ last.calls < MaxCalls
    /\ \E pair \in ValidPairs, rate \in Rates, t \in Ticks, io \in IoOutcomes :
         \E res \in {UpdateRatesCache(ratesFile, [p \in {pair} |-> rate],
                                      SourceOf(AdapterOf(pair)), Strftime(t), t, io)} :
           /\ ratesFile' = res.file
           /\ last' = [NoPrice EXCEPT !.op = "refresh", !.raised = res.raised,
                                      !.code = pair[1], !.rate = rate,
                                      !.calls = last.calls + 1]
    /\ UNCHANGED <<orderVars, cache0, updVars, wr, conc, sched, req, portfolio, db>>

\* usecases.get_portfolio_info(user, "USD")
GetPortfolioInfo ==
    /\ last.calls < MaxCalls
    /\ \E g \in {get_rates(ratesFile)} :
         last' = IF g.raised # "none"
                 THEN [NoPrice EXCEPT !.op = "info", !.raised = g.raised,
                                      !.calls = last.calls + 1]
                 ELSE [NoPrice EXCEPT
                         !.op = "info", !.raised = "none", !.calls = last.calls + 1,
                         !.values = [c \in DOMAIN portfolio.wallets |->
                                       FixDiv(FixMul(portfolio.wallets[c],
                                                     RateOf(g.rates, c)),
                                              RateOf(g.rates, "USD"))]]
    /\ UNCHANGED <<ratesFile, orderVars, cache0, updVars, wr, conc, sched, req,
                   portfolio, db>>

\* usecases.buy_currency and usecases.sell_currency: validate, load the
\* portfolio, get_rates, trade, save, report the rate used
Trade(op, code, amount) ==
    IF amount <= 0
    THEN /\ last' = [NoPrice EXCEPT !.op = op, !.raised = "ValueError", !.code = code,
                                    !.amount = amount, !.calls = last.calls + 1]
         /\ UNCHANGED portfolio
    ELSE \E g \in {get_rates(ratesFile)} :
           IF g.raised # "none"
           THEN /\ last' = [NoPrice EXCEPT !.op = op, !.raised = g.raised, !.code = code,
                                           !.amount = amount, !.calls = last.calls + 1]
                /\ UNCHANGED portfolio
           ELSE \E res \in {IF op = "buy"
                            THEN PortfolioBuy(portfolio.wallets, code, amount, g.rates)
                            ELSE PortfolioSell(portfolio.wallets, code, amount, g.rates)} :
                  /\ portfolio' = [wallets |-> res.wallets]
                  /\ last' = [NoPrice EXCEPT !.op = op, !.raised = res.raised,
                                             !.code = code, !.amount = amount,
                                             !.rate = RateOf(g.rates, code),
                                             !.calls = last.calls + 1]

BuyCurrency ==
    /\ last.calls < MaxCalls
    /\ \E code \in PriceCodes, amount \in Amounts : Trade("buy", code, amount)
    /\ UNCHANGED <<ratesFile, orderVars, cache0, updVars, wr, conc, sched, req, db>>

SellCurrency ==
    /\ last.calls < MaxCalls
    /\ \E code \in PriceCodes, amount \in Amounts : Trade("sell", code, amount)
    /\ UNCHANGED <<ratesFile, orderVars, cache0, updVars, wr, conc, sched, req, db>>

PriceNext == Refresh \/ GetPortfolioInfo \/ BuyCurrency \/ SellCurrency

SpecPrice == PriceInit /\ [][PriceNext]_vars

(***************************************************************************)
(* Claims about the consumers of the cache                                 *)
(***************************************************************************)
\* the rate the cache file holds for currency code against USD
Cached(code) == PairsOf(ratesFile)[<<code, "USD">>].rate
InCache(code) == <<code, "USD">> \in DOMAIN PairsOf(ratesFile)

\* C27 as stated: once the cache file holds pair C_USD with rate r, a
\* buy_currency or sell_currency of C reports and uses the rate r, and
\* get_portfolio_info values the wallet of C at balance * r.
C27_PricedFromCache ==
    /\ (last.op \in {"buy", "sell"} /\ last.raised = "none" /\ InCache(last.code))
          => last.rate = Cached(last.code)
    /\ (last.op = "info" /\ last.raised = "none") =>
          \A c \in DOMAIN last.values :
              InCache(c) => last.values[c] = FixMul(portfolio.wallets[c], Cached(c))

(***************************************************************************)
(* Specification SpecCli: the process started as                           *)
(* `main.py update-rates [--source S]`, from run_cli to its exit.          *)
(***************************************************************************)
\* the values of --source: absent, the two choices, anything else
SourceArgs == {"None", "coingecko", "exchangerate", "other"}

\* interface.py lines 509-529: the adapters of the chosen source;
\* RatesUpdater() creates both
ClientsOf(source) ==
    CASE source = "coingecko" -> <<"CoinGeckoClient">>
      [] source = "exchangerate" -> <<"ExchangeRateApiClient">>
      [] OTHER -> <<"CoinGeckoClient", "ExchangeRateApiClient">>

\* the exit status of the interpreter: 0 when main() returns, 1 when an
\* exception leaves it
ExitStatus(raised) == IF raised = "none" THEN 0 ELSE 1

\* interface.py lines 531-565: what cmd_update_rates prints for the way
\* run_update ended; every exception is caught, so the command returns
CmdOutput(c) ==
    CASE c.result = "returned" ->
           [kind |-> IF c.stats.errors = 0 THEN "success" ELSE "attention",
            stats |-> c.stats, msg |-> << >>, raised |-> "none"]
      [] c.result = "ApiRequestError" ->
           [kind |-> "api error", stats |-> ZeroStats, msg |-> c.msg, raised |-> "none"]
      [] c.result = "StorageError" ->
           [kind |-> "storage error", stats |-> ZeroStats, msg |-> << >>,
            raised |-> "none"]
      [] OTHER ->
           [kind |-> "unexpected error", stats |-> ZeroStats, msg |-> << >>,
            raised |-> "none"]

InShell == [pc |-> "shell", source |-> "None", out |-> "none", msg |-> << >>, exit |-> 0]

CliInit ==
    /\ \/ ratesFile = NoFile /\ historyFile = NoFile
       \/ \E t \in Ticks : ratesFile = EarlierCache(t) /\ historyFile = EarlierHistory(t)
    /\ cache0 = ratesFile
    /\ hist0 = historyFile
    /\ clients = << >>
    /\ cyc = IdleUpd
    /\ last = InShell
    /\ OrderIdle
    /\ BgIdle

\* run_cli: parse_args (the choices of --source), then cmd_update_rates up
\* to the construction of the RatesUpdater
CmdUpdateRates ==
    /\ last.pc = "shell"
    /\ \E source \in SourceArgs :
         IF source = "other"
         THEN /\ last' = [InShell EXCEPT !.pc = "exited", !.source = source,
                                         !.out = "usage error", !.exit = 2]
              /\ UNCHANGED clients
         ELSE /\ last' = [InShell EXCEPT !.pc = "running", !.source = source]
              /\ clients' = ClientsOf(source)
    /\ UNCHANGED <<ratesFile, orderVars, cache0, historyFile, hist0, cyc, bgVars>>

\* updater.run_update() inside the command
CmdCycle == last.pc = "running" /\ UpdNext

\* the report of the command, its return, and the exit of the process
CmdReport ==
    /\ last.pc = "running"
    /\ cyc.pc = "done"
    /\ \E o \in {CmdOutput(cyc)} :
         last' = [last EXCEPT !.pc = "exited", !.out = o.kind, !.msg = o.msg,
                              !.exit = ExitStatus(o.raised)]
    /\ UNCHANGED <<ratesFile, orderVars, cache0, updVars, bgVars>>

CliNext == CmdUpdateRates \/ CmdCycle \/ CmdReport

SpecCli == CliInit /\ [][CliNext]_vars

(***************************************************************************)
(* Claims about the update-rates command                                   *)
(***************************************************************************)
\* C28 as stated: when the cycle of update-rates fails entirely (no source
\* succeeded), the command reports the failure reason and the process exits
\* with a non-zero status.
C28_FailureExit ==
    (last.pc = "exited" /\ cyc.result = "ApiRequestError") =>
        /\ last.out = "api error"
        /\ last.msg = cyc.msg
        /\ last.exit # 0

(***************************************************************************)
(* Specification SpecWallet: one Wallet and a sequence of deposit and      *)
(* withdraw calls on it.  Amounts are counted in ten-thousandths.          *)
(***************************************************************************)
\* the amounts of the calls: negative, zero, half a unit, one and two units
WalletAmounts == {-10000, 0, 5000, 10000, 20000}

\* Wallet(code, balance): the balance setter refuses a negative balance
WalletBalances == {0, 5000, 10000}

NoWalletCall == [op |-> "none", raised |-> "nocall", amount |-> 0, before |-> 0,
                 calls |-> 0]

WalletInit ==
    /\ portfolio \in {[wallets |-> [c \in {"USD"} |-> b]] : b \in WalletBalances}
    /\ db = IdleDb
    /\ last = NoWalletCall
    /\ ratesFile = NoFile /\ cache0 = NoFile
    /\ OrderIdle
    /\ UpdIdle
    /\ wr = IdleWr /\ conc = IdleConc /\ sched = IdleSched /\ req = IdleReq

WalletCall(op, amount) ==
    \E res \in {IF op = "deposit"
                THEN Deposit(portfolio.wallets["USD"], amount)
                ELSE Withdraw(portfolio.wallets["USD"], amount)} :
        /\ portfolio' = [wallets |-> [c \in {"USD"} |-> res.balance]]
        /\ last' = [op |-> op, raised |-> res.raised, amount |-> amount,
                    before |-> portfolio.wallets["USD"], calls |-> last.calls + 1]
        /\ UNCHANGED <<ratesFile, orderVars, cache0, updVars, wr, conc, sched, req, db>>

WalletDeposit ==
    /\ last.calls < MaxCalls
    /\ \E amount \in WalletAmounts : WalletCall("deposit", amount)

WalletWithdraw ==
    /\ last.calls < MaxCalls
    /\ \E amount \in WalletAmounts : WalletCall("withdraw", amount)

WalletNext == WalletDeposit \/ WalletWithdraw

SpecWallet == WalletInit /\ [][WalletNext]_vars

(***************************************************************************)
(* Claims about the Wallet                                                 *)
(***************************************************************************)
\* C31: over any sequence of deposit and withdraw calls the balance is
\* never negative; a withdraw of more than the balance raises
\* InsufficientFundsError, a call with a non-positive amount raises
\* InvalidAmountError, and a rejected call leaves the balance as it was.
C31_NeverNegative ==
    /\ portfolio.wallets["USD"] >= 0
    /\ (last.op \in {"deposit", "withdraw"} /\ last.amount <= 0) =>
           last.raised = "InvalidAmountError"
    /\ (last.op = "withdraw" /\ last.amount > 0 /\ last.amount > last.before) =>
           last.raised = "InsufficientFundsError"
    /\ (last.op \in {"deposit", "withdraw"} /\ last.raised # "none") =>
           portfolio.wallets["USD"] = last.before
    /\ (last.op = "deposit" /\ last.raised = "none") =>
           portfolio.wallets["USD"] = last.before + last.amount
    /\ (last.op = "withdraw" /\ last.raised = "none") =>
           portfolio.wallets["USD"] = last.before - last.amount

\* a withdraw of more than a positive balance was refused after a deposit
C31_Witness ==
    /\ last.op = "withdraw"
    /\ last.raised = "InsufficientFundsError"
    /\ last.before > 0
    /\ last.calls > 1
    /\ portfolio.wallets["USD"] = last.before

(***************************************************************************)
(* Specification SpecDb: the DatabaseManager singleton (infra/database.py) *)
(* and the threads that call load, save and update on one file.  The lock  *)
(* is a threading.Lock: it has no owner and is not reentrant, so acquiring *)
(* it waits until it is free, whoever holds it.  The data of the file is a *)
(* number; the updater adds one or raises.                                 *)
(***************************************************************************)
DbThreads == {1, 2}

\* the argument of a direct save
DbData == {0, 1}

Updaters == {"adds", "raises"}

IdleCaller == [pc |-> "idle", op |-> "none", use_cache |-> FALSE, updater |-> "none",
               nested |-> FALSE, data |-> 0, prev |-> 0, result |-> "none", ret |-> 0]

DbInit ==
    /\ db \in {[IdleDb EXCEPT !.file = f, !.th = [t \in DbThreads |-> IdleCaller]] :
                 f \in {[exists |-> FALSE, data |-> 0], [exists |-> TRUE, data |-> 0]}}
    /\ ratesFile = NoFile /\ cache0 = NoFile
    /\ last = NoCall
    /\ OrderIdle
    /\ UpdIdle
    /\ wr = IdleWr /\ conc = IdleConc /\ sched = IdleSched /\ req = IdleReq
    /\ portfolio = IdlePortfolio

dbFrame == <<ratesFile, last, orderVars, cache0, updVars, wr, conc, sched, req,
             portfolio>>

\* a thread begins db.load(filename, use_cache)
CallLoad(t) ==
    /\ db.th[t].pc = "idle"
    /\ db.calls < MaxCalls
    /\ \E use_cache \in BOOLEAN :
         db' = [db EXCEPT !.calls = @ + 1,
                          !.th[t] = [IdleCaller EXCEPT !.pc = "load", !.op = "load",
                                                       !.use_cache = use_cache]]
    /\ UNCHANGED dbFrame

\* a thread begins db.save(filename, data): the path, then the lock
CallSave(t) ==
    /\ db.th[t].pc = "idle"
    /\ db.calls < MaxCalls
    /\ \E data \in DbData :
         db' = [db EXCEPT !.calls = @ + 1,
                          !.th[t] = [IdleCaller EXCEPT !.pc = "save_lock", !.op = "save",
                                                       !.data = data]]
    /\ UNCHANGED dbFrame

\* a thread begins db.update(filename, updater, use_cache)
CallUpdate(t) ==
    /\ db.th[t].pc = "idle"
    /\ db.calls < MaxCalls
    /\ \E updater \in Updaters, use_cache \in BOOLEAN :
         db' = [db EXCEPT !.calls = @ + 1,
                          !.th[t] = [IdleCaller EXCEPT !.pc = "upd_lock", !.op = "update",
                                                       !.updater = updater,
                                                       !.use_cache = use_cache,
                                                       !.prev = db.file.data]]
    /\ UNCHANGED dbFrame

\* update: with self._lock, then self.load(filename, use_cache=use_cache)
UpdateAcquire(t) ==
    /\ db.th[t].pc = "upd_lock"
    /\ db.lock = 0
    /\ db' = [db EXCEPT !.lock = t, !.th[t].pc = "load", !.th[t].nested = TRUE]
    /\ UNCHANGED dbFrame

\* load has its data: a direct call returns it, update goes on to the updater
LoadReturns(c, data) ==
    IF c.nested THEN [c EXCEPT !.pc = "updater", !.data = data]
    ELSE [c EXCEPT !.pc = "idle", !.result = "returned", !.ret = data]

\* an exception leaves the call; the with block of update releases the lock
Raises(d, t, exception, releases) ==
    [d EXCEPT !.lock = IF releases THEN 0 ELSE @,
              !.th[t].pc = "idle", !.th[t].result = exception]

\* load: the cache test, then the existence test, both before the lock
LoadCheck(t) ==
    /\ db.th[t].pc = "load"
    /\ db' = IF db.th[t].use_cache /\ db.cache.has
             THEN [db EXCEPT !.th[t] = LoadReturns(@, db.cache.data)]
             ELSE IF ~db.file.exists
             THEN Raises(db, t, "DataNotFoundError", db.th[t].nested)
             ELSE [db EXCEPT !.th[t].pc = "load_lock"]
    /\ UNCHANGED dbFrame

\* load: with self._lock
LoadAcquire(t) ==
    /\ db.th[t].pc = "load_lock"
    /\ db.lock = 0
    /\ db' = [db EXCEPT !.lock = t, !.th[t].pc = "load_read"]
    /\ UNCHANGED dbFrame

\* load: json.load, the cache entry, the return and the release of the lock
LoadRead(t) ==
    /\ db.th[t].pc = "load_read"
    /\ db' = [db EXCEPT !.lock = 0,
                        !.cache = [has |-> TRUE, data |-> db.file.data],
                        !.th[t] = LoadReturns(@, db.file.data)]
    /\ UNCHANGED dbFrame

\* update: updated_data = updater(data), then self.save(...)
ApplyUpdater(t) ==
    /\ db.th[t].pc = "updater"
    /\ db' = IF db.th[t].updater = "raises"
             THEN Raises(db, t, "UpdaterError", TRUE)
             ELSE [db EXCEPT !.th[t].pc = "save_lock", !.th[t].data = @ + 1]
    /\ UNCHANGED dbFrame

\* save: with self._lock
SaveAcquire(t) ==
    /\ db.th[t].pc = "save_lock"
    /\ db.lock = 0
    /\ db' = [db EXCEPT !.lock = t, !.th[t].pc = "save_write"]
    /\ UNCHANGED dbFrame

\* save: open, json.dump, the cache entry and the release of the lock; in
\* update the data is then returned through the end of update's with block,
\* which releases a lock that save has already released
SaveWrite(t) ==
    /\ db.th[t].pc = "save_write"
    /\ \E io \in {"ok", "OSError"} :
         db' = IF io = "OSError"
               THEN Raises(db, t, "OSError", TRUE)
               ELSE [db EXCEPT !.lock = 0,
                               !.file = [exists |-> TRUE, data |-> db.th[t].data],
                               !.cache = [has |-> TRUE, data |-> db.th[t].data],
                               !.th[t].pc = "idle",
                               !.th[t].ret = db.th[t].data,
                               !.th[t].result = IF db.th[t].nested
                                                THEN "RuntimeError" ELSE "returned"]
    /\ UNCHANGED dbFrame

DbStep(t) ==
    \/ CallLoad(t) \/ CallSave(t) \/ CallUpdate(t)
    \/ UpdateAcquire(t) \/ LoadCheck(t) \/ LoadAcquire(t) \/ LoadRead(t)
    \/ ApplyUpdater(t) \/ SaveAcquire(t) \/ SaveWrite(t)

DbNext == \E t \in DbThreads : DbStep(t)

\* a thread that can take a step takes one
SpecDb == DbInit /\ [][DbNext]_vars /\ WF_vars(DbNext)

(***************************************************************************)
(* Claims about the DatabaseManager                                        *)
(***************************************************************************)
InUpdate(t) ==
    /\ db.th[t].op = "update"
    /\ db.th[t].updater = "adds"
    /\ db.th[t].pc = "upd_lock"
    /\ db.file.exists

UpdateDone(t) ==
    /\ db.th[t].op = "update"
    /\ db.th[t].pc = "idle"
    /\ db.th[t].result = "returned"
    /\ db.lock = 0

\* C32 as stated: update(filename, updater) does load, updater and save as
\* one read-modify-write under the manager's lock and returns the updated
\* data: every call on an existing file terminates, leaves the lock
\* released, and the file holds updater(previous data).
C32_UpdateTerminates ==
    \A t \in DbThreads : InUpdate(t) ~> UpdateDone(t)

(***************************************************************************)
(* Claims about the loop over the adapters                                 *)
(***************************************************************************)
\* C33: within one run_update cycle every adapter of the list is called
\* exactly once, in list order, whatever the outcome (success,
\* ApiRequestError, another exception) of the adapters before it; a failed
\* adapter is not called a second time in the cycle.
C33_EachOnceInOrder ==
    /\ \A k \in Seen : cyc.fetched[k].client = k
    /\ cyc.pc \in {"clients", "done"} => Len(cyc.fetched) = cyc.i - 1
    /\ Len(cyc.fetched) <= Len(clients)
    /\ Done => Len(cyc.fetched) = Len(clients)

\* a cycle ended after its first adapter raised a non-API exception and its
\* second returned rates
C33_Witness ==
    /\ Done
    /\ Len(clients) = 2
    /\ cyc.fetched[1].kind = "Exception"
    /\ cyc.fetched[2].kind = "ok"
    /\ cyc.fetched[2].client = 2

(***************************************************************************)
(* Claims about a failing write                                            *)
(***************************************************************************)
\* C34 as stated: when a cache or history write fails with an OSError at
\* any step (creating the temp file, writing the JSON into it, the rename),
\* the write raises StorageError, the canonical file is unchanged and no
\* partially written temp file is left in the data directory.
C34_NoTempLeft ==
    (wr.pc = "idle" /\ wr.raised = "StorageError") =>
        /\ ratesFile = cache0
        /\ historyFile = hist0
        /\ wr.step \in {"dump", "replace"} => ~wr.tmp.exists

(***************************************************************************)
(* Claims about the record ids                                             *)
(***************************************************************************)
\* C35 as stated: after any sequence of refresh cycles and
\* add_history_record calls no two records of the history log share the
\* same id ({FROM}_{TO}_{timestamp}).
C35_UniqueIds ==
    \A i, j \in DOMAIN RecordsOf(historyFile) :
        i # j => RecordsOf(historyFile)[i].id # RecordsOf(historyFile)[j].id

(***************************************************************************)
(* Specification SpecValidate: update_rates_cache called with batches      *)
(* whose keys are valid pairs, malformed keys, or both.                    *)
(***************************************************************************)
MalformedKeys == {BadCode, OnePart}

\* batches: valid pairs at the lowest or the highest rate, malformed keys
KeyedBatches ==
    {DictUpdate(valid, [p \in malformed |-> 1]) :
        valid \in UNION {[ks -> {1, MaxRate}] : ks \in SUBSET ValidPairs},
        malformed \in SUBSET MalformedKeys}

NoKeyedCall == [tick |-> 0, raised |-> "nocall", keys |-> {}, before |-> NoFile]

ValidateInit ==
    /\ ratesFile \in InitCacheFiles
    /\ cache0 = ratesFile
    /\ last = NoKeyedCall
    /\ OrderIdle
    /\ UpdIdle
    /\ BgIdle

\* update_rates_cache(rates, source, timestamp)
KeyedCall ==
    \E rates \in KeyedBatches, t \in Ticks, io \in IoOutcomes :
        \E res \in {UpdateRatesCache(ratesFile, rates, "CoinGecko", Strftime(t), t, io)} :
            /\ ratesFile' = res.file
            /\ last' = [tick |-> t, raised |-> res.raised, keys |-> DOMAIN rates,
                        before |-> ratesFile]
            /\ UNCHANGED <<orderVars, cache0, updVars, bgVars>>

ValidateNext == KeyedCall

SpecValidate == ValidateInit /\ [][ValidateNext]_vars

FailedAfterFetch == {k \in Seen : cyc.fetched[k].kind = "ok" /\ ~cyc.fetched[k].appended}
Succeeded == {k \in Seen : cyc.fetched[k].kind = "ok" /\ cyc.fetched[k].appended}
ReturnedBy(k) == {it.pair : it \in Range(cyc.fetched[k].items)}

\* C37 as stated: only pairs of adapters counted as succeeded reach the
\* cache: when processing an adapter's result raises after its fetch
\* returned (a history append failing, a malformed pair key), the adapter is
\* counted as failed, none of its pairs is merged into the cache, and
\* run_update still returns statistics when another adapter succeeded.
C37_OnlySucceeded ==
    Done =>
        /\ cyc.stats.failed = Cardinality(FailedAdapters)
        /\ \A p \in WrittenByCycle : \E k \in Succeeded : p \in ReturnedBy(k)
        /\ (/\ FailedAfterFetch # {}
            /\ Succeeded # {}
            /\ \A k \in DOMAIN cyc.merged : cyc.merged[k] = "none") =>
               cyc.result = "returned"

(***************************************************************************)
(* Claims about last_refresh                                               *)
(***************************************************************************)
LastRefreshOf(f) == ReadRatesCache(f, 0).data.last_refresh

\* C38: last_refresh is not covered by the no-regression rule: a completed
\* update_rates_cache call with a timestamp older than the stored
\* last_refresh sets last_refresh back to the older value while the pairs
\* stored with a newer updated_at stay as they are.
C38_RefreshRegresses ==
    [][(/\ last'.raised = "none"
        /\ LastRefreshOf(ratesFile) # None
        /\ last'.tick < Strptime(LastRefreshOf(ratesFile))) =>
           /\ LastRefreshOf(ratesFile') = Strftime(last'.tick)
           /\ Strptime(LastRefreshOf(ratesFile')) < Strptime(LastRefreshOf(ratesFile))
           /\ \A p \in DOMAIN PairsOf(ratesFile) :
                last'.tick < Strptime(PairsOf(ratesFile)[p].updated_at) =>
                    PairsOf(ratesFile')[p] = PairsOf(ratesFile)[p]]_vars

\* a snapshot whose last_refresh is older than the updated_at of one of its
\* pairs, left by a call that applied another pair
C38_Witness ==
    /\ last.raised = "none"
    /\ last.applied # {}
    /\ LastRefreshOf(ratesFile) = Strftime(last.tick)
    /\ \E p \in DOMAIN PairsOf(ratesFile) :
          Strptime(LastRefreshOf(ratesFile)) < Strptime(PairsOf(ratesFile)[p].updated_at)

====
